---- MODULE Spec2Model ----
(***************************************************************************)
(* Model of static/js/main.js of the governance dashboard: the load flow   *)
(* (initializeDashboard, fetchAllData, processData, renderTable), the     *)
(* detail-row and Q/A pagination handlers, and the security scan handler. *)
(*                                                                         *)
(* JavaScript strings are sequences of one-character strings, so that     *)
(* trim, toLowerCase, replace(/\D/g,'') and parseInt are computed.        *)
(***************************************************************************)
EXTENDS Integers, Sequences, FiniteSets, TLC

VARIABLES
    srvBundles,   \* the governance API's answer to GET bundles
    srvCompute,   \* its answer to POST compute-policy, per bundle id
    hung,         \* bundle ids whose compute-policy request never completes
    pc,           \* position of initializeDashboard / fetchAllData
    req,          \* per bundle id: state of its compute-policy request
    bundles,      \* appState.bundles
    policies,     \* appState.policies
    evidence,     \* appState.evidence
    tableData,    \* appState.tableData
    qaData,       \* appState.qaData
    tbody,        \* content of '.table-container tbody'
    dom,          \* per rendered row: detail row, action button, Q/A container
    timer,        \* setTimeout(initializeQAPagination, 0) pending
    clipboard,    \* the last copyQAToClipboard call and the text it wrote
    scans,        \* handleSecurityScan invocations
    button,       \* the '.security-scan-btn' element
    container     \* the '.security-scan-container' element next to it

vars == <<srvBundles, srvCompute, hung, pc, req, bundles, policies, evidence,
          tableData, qaData, tbody, dom, timer, clipboard, scans, button,
          container>>

loadVars == <<srvBundles, srvCompute, hung, pc, req, bundles, policies,
              evidence, tableData, qaData, tbody>>
uiVars == <<dom, timer, clipboard>>

\* No copyQAToClipboard call yet
NoCopy == [index |-> 0, raised |-> FALSE, text |-> <<>>]
scanVars == <<scans, button, container>>

-----------------------------------------------------------------------------
(* Bounds of the model *)

MaxBundles == 2      \* bundles in the server's list (load flow)
MaxRows == 2         \* bundles handed to processData (row builder)
MaxUIRows == 2       \* rows of the rendered table (handlers)
MaxQA == 9           \* Q/A items of one rendered row
MaxScans == 4        \* handleSecurityScan invocations

(* Program constants *)

HARDCODED_POLICY_ID == "10177420-1d88-41f6-a029-60d47f3cd397"
itemsPerPage == 4

-----------------------------------------------------------------------------
(* JavaScript strings *)

Lower == <<"a","b","c","d","e","f","g","h","i","j","k","l","m",
           "n","o","p","q","r","s","t","u","v","w","x","y","z">>
Upper == <<"A","B","C","D","E","F","G","H","I","J","K","L","M",
           "N","O","P","Q","R","S","T","U","V","W","X","Y","Z">>
Digits == <<"0","1","2","3","4","5","6","7","8","9">>

IsSpace(c) == c \in {" ", "\t", "\n", "\r"}
IsDigit(c) == \E i \in 1..10 : Digits[i] = c
DigitVal(c) == (CHOOSE i \in 1..10 : Digits[i] = c) - 1
LowerOf(c) == IF \E i \in 1..26 : Upper[i] = c
              THEN Lower[CHOOSE i \in 1..26 : Upper[i] = c]
              ELSE c

RECURSIVE TrimStart(_)
TrimStart(s) == IF s /= <<>> /\ IsSpace(Head(s)) THEN TrimStart(Tail(s)) ELSE s

RECURSIVE TrimEnd(_)
TrimEnd(s) == IF s /= <<>> /\ IsSpace(s[Len(s)])
              THEN TrimEnd(SubSeq(s, 1, Len(s) - 1))
              ELSE s

\* String.prototype.trim
trim(s) == TrimEnd(TrimStart(s))

\* String.prototype.toLowerCase
toLowerCase(s) == [i \in 1..Len(s) |-> LowerOf(s[i])]

\* s.replace(/\D/g, '')
StripNonDigits(s) == SelectSeq(s, IsDigit)

\* parseInt(d) || 0 for a string d of decimal digits: NaN (no digit) gives 0
RECURSIVE DecimalValue(_)
DecimalValue(d) == IF d = <<>> THEN 0
                   ELSE 10 * DecimalValue(SubSeq(d, 1, Len(d) - 1)) + DigitVal(d[Len(d)])

\* Collation rank of a character: punctuation and space before digits before
\* letters, a letter's lower case before its upper case.
CharRank(c) ==
    IF IsDigit(c) THEN 10 + DigitVal(c)
    ELSE IF \E i \in 1..26 : Lower[i] = c THEN 20 + 2 * (CHOOSE i \in 1..26 : Lower[i] = c)
    ELSE IF \E i \in 1..26 : Upper[i] = c THEN 21 + 2 * (CHOOSE i \in 1..26 : Upper[i] = c)
    ELSE IF c = " " THEN 1
    ELSE IF c = "-" THEN 2
    ELSE 3

\* a.localeCompare(b): negative, zero or positive
RECURSIVE localeCompare(_, _)
localeCompare(a, b) ==
    IF a = <<>> /\ b = <<>> THEN 0
    ELSE IF a = <<>> THEN -1
    ELSE IF b = <<>> THEN 1
    ELSE IF CharRank(Head(a)) < CharRank(Head(b)) THEN -1
    ELSE IF CharRank(Head(a)) > CharRank(Head(b)) THEN 1
    ELSE localeCompare(Tail(a), Tail(b))

-----------------------------------------------------------------------------
(* JavaScript values carried by artifactContent *)

\* A value is a record: t its type, s the characters of a string, n a number
\* (1 and 0 for true and false), f the elements of an array or the fields of
\* an object, in order, each field a record of its key k and its value v
JNull == [t |-> "null", s |-> <<>>, n |-> 0, f |-> <<>>]
JUndefined == [t |-> "undefined", s |-> <<>>, n |-> 0, f |-> <<>>]
JStr(s) == [t |-> "string", s |-> s, n |-> 0, f |-> <<>>]
JNum(n) == [t |-> "number", s |-> <<>>, n |-> n, f |-> <<>>]
JBool(b) == [t |-> "boolean", s |-> <<>>, n |-> IF b THEN 1 ELSE 0, f |-> <<>>]
JArr(items) == [t |-> "array", s |-> <<>>, n |-> 0, f |-> items]
JObj(fields) == [t |-> "object", s |-> <<>>, n |-> 0, f |-> fields]
Field(k, v) == [k |-> k, v |-> v]

\* typeof v === 'object' && v !== null
IsObject(v) == v.t \in {"array", "object"}

\* v.key: the value of the last field with that key, undefined without one
\* (and for a value that is no object)
Get(v, key) ==
    LET hits == IF v.t = "object" THEN SelectSeq(v.f, LAMBDA fd : fd.k = key) ELSE <<>>
    IN  IF hits = <<>> THEN JUndefined ELSE hits[Len(hits)].v

\* ToBoolean
Truthy(v) == CASE v.t \in {"null", "undefined"} -> FALSE
               [] v.t = "string" -> v.s /= <<>>
               [] v.t \in {"number", "boolean"} -> v.n /= 0
               [] OTHER -> TRUE

\* v || null
OrNull(v) == IF Truthy(v) THEN v ELSE JNull

-----------------------------------------------------------------------------
(* Policies and evidence definitions *)

\* All evidence definitions of a policy, stage by stage (policy.stages[*].evidenceSet)
RECURSIVE StageDefs(_)
StageDefs(stages) == IF stages = <<>> THEN <<>>
                     ELSE Head(stages).evidenceSet \o StageDefs(Tail(stages))

\* The definition a policy's stage loop stops at: the first stage holding a
\* definition with def.id = evidenceId, and in it the first such definition.
\* A sequence of length 0 (no stage matches) or 1.
PolicyMatch(policyId, evidenceId) ==
    IF policyId \notin DOMAIN policies THEN <<>>
    ELSE LET found == SelectSeq(StageDefs(policies[policyId].stages),
                                LAMBDA def : def.id = evidenceId)
         IN  IF found = <<>> THEN <<>> ELSE <<found[1]>>

\* The matches over the bundle's policies, in the order of bundle.policies
RECURSIVE Matches(_, _)
Matches(bundlePolicies, evidenceId) ==
    IF bundlePolicies = <<>> THEN <<>>
    ELSE PolicyMatch(Head(bundlePolicies).policyId, evidenceId)
         \o Matches(Tail(bundlePolicies), evidenceId)

\* getEvidenceExternalId: the external id of the first match, "" for null
getEvidenceExternalId(ev, bundlePolicies) ==
    LET ms == Matches(bundlePolicies, ev.evidenceId)
    IN  IF ms = <<>> THEN "" ELSE ms[1].externalId

\* a || b on strings, "" being the falsy one
Or(a, b) == IF a /= "" THEN a ELSE b

\* The question of extractQADictionary: every policy with a match overwrites it
RECURSIVE QuestionOver(_, _)
QuestionOver(ms, question) ==
    IF ms = <<>> THEN question
    ELSE QuestionOver(Tail(ms), Or(Head(ms).name, Or(Head(ms).externalId, question)))

ResolveQuestion(ev, bundlePolicies) ==
    QuestionOver(Matches(bundlePolicies, ev.evidenceId),
                 Or(getEvidenceExternalId(ev, bundlePolicies), Or(ev.evidenceId, "Unknown")))

-----------------------------------------------------------------------------
(* Answer formatting of extractQADictionary *)

\* String(n) for a non-negative integer
RECURSIVE NumToString(_)
NumToString(n) == IF n < 10 THEN <<Digits[n + 1]>>
                  ELSE NumToString(n \div 10) \o <<Digits[(n % 10) + 1]>>

\* answer.split('\n')
RECURSIVE SplitLines(_, _)
SplitLines(s, cur) ==
    IF s = <<>> THEN <<cur>>
    ELSE IF Head(s) = "\n" THEN <<cur>> \o SplitLines(Tail(s), <<>>)
    ELSE SplitLines(Tail(s), Append(cur, Head(s)))

\* The markup <br> and the bullet character, each one element of a text
Br == "<br>"
Bullet == "u2022"

\* lines.join('<br>')
RECURSIVE JoinBr(_)
JoinBr(lines) == IF lines = <<>> THEN <<>>
                 ELSE IF Len(lines) = 1 THEN lines[1]
                 ELSE lines[1] \o <<Br>> \o JoinBr(Tail(lines))

\* Mutant: the lines that are empty after trimming are not filtered out
BulletsKeepBlank(answer) ==
    LET trimmed == [i \in 1..Len(SplitLines(answer, <<>>)) |->
                        trim(SplitLines(answer, <<>>)[i])]
    IN  JoinBr([i \in 1..Len(trimmed) |-> <<Bullet, " ">> \o trimmed[i]])

\* split('\n'), trim each line, keep the lines that are not empty, put a
\* bullet and a space before each, join with <br>
Bullets(answer) ==
    LET trimmed == [i \in 1..Len(SplitLines(answer, <<>>)) |->
                        trim(SplitLines(answer, <<>>)[i])]
        kept == SelectSeq(trimmed, LAMBDA line : Len(line) > 0)
    IN  JoinBr([i \in 1..Len(kept) |-> <<Bullet, " ">> \o kept[i]])

\* lines.join(sep) over texts
RECURSIVE JoinWith(_, _)
JoinWith(lines, sep) == IF lines = <<>> THEN <<>>
                        ELSE IF Len(lines) = 1 THEN lines[1]
                        ELSE lines[1] \o sep \o JoinWith(Tail(lines), sep)

\* String(v), and array.join(sep): null and undefined elements give ''
RECURSIVE StringOf(_)
RECURSIVE ArrayJoin(_, _)
StringOf(v) ==
    CASE v.t = "null" -> <<"n","u","l","l">>
      [] v.t = "undefined" -> <<"u","n","d","e","f","i","n","e","d">>
      [] v.t = "string" -> v.s
      [] v.t = "number" -> NumToString(v.n)
      [] v.t = "boolean" -> IF v.n = 1 THEN <<"t","r","u","e">> ELSE <<"f","a","l","s","e">>
      [] v.t = "array" -> ArrayJoin(v.f, <<",">>)
      [] v.t = "object" -> <<"[","o","b","j","e","c","t"," ","O","b","j","e","c","t","]">>

ArrayJoin(items, sep) ==
    JoinWith([i \in 1..Len(items) |->
                IF items[i].t \in {"null", "undefined"} THEN <<>> ELSE StringOf(items[i])],
             sep)

\* The characters of a string inside JSON text
RECURSIVE Escape(_)
Escape(s) ==
    IF s = <<>> THEN <<>>
    ELSE IF Len(s) = 1
    THEN CASE s[1] = "\"" -> <<"\\", "\"">>
           [] s[1] = "\\" -> <<"\\", "\\">>
           [] s[1] = "\n" -> <<"\\", "n">>
           [] s[1] = "\t" -> <<"\\", "t">>
           [] OTHER -> s
    ELSE Escape(SubSeq(s, 1, Len(s) \div 2)) \o Escape(SubSeq(s, Len(s) \div 2 + 1, Len(s)))

\* JSON.stringify(v): compact text; a field whose value is undefined is left
\* out, an undefined element of an array is written null
RECURSIVE Stringify(_)
Stringify(v) ==
    CASE v.t \in {"null", "undefined"} -> <<"n","u","l","l">>
      [] v.t = "string" -> <<"\"">> \o Escape(v.s) \o <<"\"">>
      [] v.t \in {"number", "boolean"} -> StringOf(v)
      [] v.t = "array" ->
            <<"[">> \o JoinWith([i \in 1..Len(v.f) |-> Stringify(v.f[i])], <<",">>) \o <<"]">>
      [] v.t = "object" ->
            LET kept == SelectSeq(v.f, LAMBDA fd : fd.v.t /= "undefined")
            IN  <<"{">> \o JoinWith([i \in 1..Len(kept) |->
                                        <<"\"">> \o Escape(kept[i].k) \o <<"\"", ":">>
                                        \o Stringify(kept[i].v)],
                                    <<",">>) \o <<"}">>

LabelKey == <<"l","a","b","e","l">>

\* The answer of an artifactContent before the line breaks are looked at:
\* text, or whatever a truthy label is
CoerceAnswer(v) ==
    CASE v.t \in {"null", "undefined"} -> JStr(<<"N", "/", "A">>)
      [] IsObject(v) ->
            IF Truthy(Get(v, LabelKey)) THEN Get(v, LabelKey)
            ELSE IF v.t = "array" THEN JStr(ArrayJoin(v.f, <<",", " ">>))
            ELSE JStr(Stringify(v))
      [] OTHER -> JStr(StringOf(v))

\* answer.includes('\n'): of a string, whether it holds the character; of an
\* array, whether an element is that string
IncludesNewline(a) ==
    CASE a.t = "string" -> \E i \in 1..Len(a.s) : a.s[i] = "\n"
      [] a.t = "array" -> \E i \in 1..Len(a.f) : a.f[i] = JStr(<<"\n">>)
      [] OTHER -> FALSE

\* A TypeError in the formatting: answer.includes is no function of a number,
\* a boolean or a plain object, answer.split none of an array
AnswerThrows(v) ==
    LET a == CoerceAnswer(v)
    IN  \/ a.t \notin {"string", "array"}
        \/ a.t = "array" /\ IncludesNewline(a)

FormatAnswer(v) ==
    LET answer == CoerceAnswer(v)
    IN  IF answer.t = "string" /\ IncludesNewline(answer)
        THEN JStr(Bullets(answer.s))
        ELSE answer

QAEntry(ev, bundlePolicies) ==
    [question |-> ResolveQuestion(ev, bundlePolicies),
     answer |-> FormatAnswer(ev.artifactContent),
     evidenceId |-> ev.evidenceId,
     externalId |-> getEvidenceExternalId(ev, bundlePolicies),
     source |-> ev.source,
     rawContent |-> ev.artifactContent]

\* Mutant: the entry of a known key is kept as it is
PutQAKeepFirst(qaDict, entry) ==
    IF \E i \in 1..Len(qaDict) : qaDict[i].question = entry.question
    THEN qaDict
    ELSE Append(qaDict, entry)

\* qaDict[question] = entry: a known key keeps its place, a new one goes last
PutQA(qaDict, entry) ==
    IF \E i \in 1..Len(qaDict) : qaDict[i].question = entry.question
    THEN [i \in 1..Len(qaDict) |->
            IF qaDict[i].question = entry.question THEN entry ELSE qaDict[i]]
    ELSE Append(qaDict, entry)

RECURSIVE QAOver(_, _, _)
QAOver(bundleEvidence, bundlePolicies, qaDict) ==
    IF bundleEvidence = <<>> THEN qaDict
    ELSE QAOver(Tail(bundleEvidence), bundlePolicies,
                PutQA(qaDict, QAEntry(Head(bundleEvidence), bundlePolicies)))

\* extractQADictionary: the entries in key order
extractQADictionary(bundleEvidence, bundlePolicies) ==
    QAOver(bundleEvidence, bundlePolicies, <<>>)

-----------------------------------------------------------------------------
(* extractFilesFromQA *)

FilesKey == <<"f","i","l","e","s">>
CommitKey == <<"c","o","m","m","i","t">>
NameKey == <<"n","a","m","e">>
PathKey == <<"p","a","t","h">>
SizeLabelKey == <<"s","i","z","e","L","a","b","e","l">>

\* A file of a files array
FileA ==
    JObj(<< Field(NameKey, JStr(<<"a",".","p","y">>)),
            Field(PathKey, JStr(<<"s","r","c","/","a",".","p","y">>)),
            Field(SizeLabelKey, JStr(<<"1"," ","K","B">>)) >>)
FileB == JObj(<< Field(PathKey, JStr(<<"b">>)) >>)

\* The values whose compact JSON text the evidence may carry as a string
JSONValues ==
    { JObj(<< Field(FilesKey, JArr(<< FileA, FileB >>)),
              Field(CommitKey, JStr(<<"c","0","f","f","e","e">>)) >>),
      JObj(<< Field(FilesKey, JArr(<< JStr(<<"r",".","t","x","t">>) >>)) >>),
      JObj(<< Field(FilesKey, JArr(<<>>)) >>),
      JObj(<< Field(<<"k">>, JStr(<<"v">>)) >>),
      JObj(<<>>) }

\* The arrays whose compact JSON text the evidence may carry as a string
JSONArrays ==
    { JArr(<< JStr(<<"a">>), JStr(<<"b">>) >>),
      JArr(<< JObj(<< Field(<<"k">>, JStr(<<"v">>)), Field(<<"n">>, JNum(1)) >>),
              JObj(<< Field(<<"k">>, JStr(<<"w">>)) >>) >>),
      JArr(<< JNull >>),
      JArr(<<>>) }

\* JSON.parse(text): the value in a sequence of its own, the empty sequence
\* when it raises a SyntaxError. A text parses when it is the JSON text of one
\* of JSONValues or JSONArrays; every other text the inputs hold is not JSON.
JSONParse(text) ==
    IF \E v \in JSONValues \cup JSONArrays : Stringify(v) = text
    THEN << CHOOSE v \in JSONValues \cup JSONArrays : Stringify(v) = text >>
    ELSE <<>>

\* trimmed.startsWith('{') && trimmed.endsWith('}')
BraceDelimited(trimmed) ==
    trimmed /= <<>> /\ Head(trimmed) = "{" /\ trimmed[Len(trimmed)] = "}"

\* JSON.parse raises for the raw content: the catch goes on to the next entry
ParseRaises(rawContent) ==
    /\ rawContent.t = "string"
    /\ BraceDelimited(trim(rawContent.s))
    /\ JSONParse(trim(rawContent.s)) = <<>>

\* parsed: the object itself, the parsed text of a brace-delimited string, or
\* nothing (null)
ParsedContent(rawContent) ==
    CASE IsObject(rawContent) -> <<rawContent>>
      [] rawContent.t = "string" /\ BraceDelimited(trim(rawContent.s)) ->
            JSONParse(trim(rawContent.s))
      [] OTHER -> <<>>

\* The descriptors one Q/A entry contributes
EntryFiles(entry) ==
    LET parsed == ParsedContent(entry.rawContent)
        files == IF parsed = <<>> THEN JUndefined ELSE Get(parsed[1], FilesKey)
    IN  IF files.t = "array" /\ Len(files.f) > 0
        THEN [i \in 1..Len(files.f) |->
                [name |-> IF Truthy(Get(files.f[i], NameKey)) THEN Get(files.f[i], NameKey)
                          ELSE JStr(<<"U","n","k","n","o","w","n"," ","f","i","l","e">>),
                 path |-> Get(files.f[i], PathKey),
                 sizeLabel |-> IF Truthy(Get(files.f[i], SizeLabelKey))
                               THEN Get(files.f[i], SizeLabelKey) ELSE JStr(<<>>),
                 question |-> entry.question,
                 commit |-> Get(parsed[1], CommitKey)]]
        ELSE <<>>

\* Mutant: a text that does not parse ends the scan
RECURSIVE FilesOverStopAtMalformed(_)
FilesOverStopAtMalformed(qaDict) ==
    IF qaDict = <<>> \/ ParseRaises(Head(qaDict).rawContent) THEN <<>>
    ELSE EntryFiles(Head(qaDict)) \o FilesOverStopAtMalformed(Tail(qaDict))

\* The loop over Object.entries(qaDict)
RECURSIVE FilesOver(_)
FilesOver(qaDict) ==
    IF qaDict = <<>> THEN <<>>
    ELSE EntryFiles(Head(qaDict)) \o FilesOver(Tail(qaDict))

extractFilesFromQA(qaDict) == FilesOver(qaDict)

-----------------------------------------------------------------------------
(* processData: one row per bundle *)

\* The external ids processData reads into the row's metadata
MetadataKeys == {"model-id", "model-name", "model-description", "model-purpose",
                 "model-status", "business-line", "business-user", "model-owner",
                 "model-developer", "model-validator", "criticality", "complexity",
                 "model-risk-tier", "clearance", "monitoring-frequency",
                 "validation-id", "event-type"}

\* appState.evidence[bundle.id] || []
BundleEvidence(bundle) ==
    IF bundle.id \in DOMAIN evidence THEN evidence[bundle.id] ELSE <<>>

\* bundleEvidenceMap[key]?.artifactContent || null: the map holds, per external
\* id, the last evidence of the list that resolves to it
MetadataValue(bundleEvidence, bundlePolicies, key) ==
    LET hits == SelectSeq(bundleEvidence,
                          LAMBDA ev : getEvidenceExternalId(ev, bundlePolicies) = key)
    IN  IF hits = <<>> THEN JNull ELSE OrNull(hits[Len(hits)].artifactContent)

\* attachmentModels: the ModelVersion attachments that carry an identifier
AttachmentModels(attachments) ==
    LET models == SelectSeq(attachments,
                            LAMBDA a : a.type = "ModelVersion" /\ a.identifier)
    IN  [i \in 1..Len(models) |-> [name |-> models[i].name, version |-> models[i].version]]

\* The loop body of processData raises for this bundle: a TypeError out of
\* extractQADictionary
RowThrows(bundle) ==
    \E i \in 1..Len(BundleEvidence(bundle)) :
        AnswerThrows(BundleEvidence(bundle)[i].artifactContent)

\* bundleRowData
BuildRow(bundle) ==
    LET bundleEvidence == BundleEvidence(bundle)
        metadata == [key \in MetadataKeys |->
                        MetadataValue(bundleEvidence, bundle.policies, key)]
    IN  [bundleId |-> bundle.id,
         bundleState |-> bundle.state,
         attachmentModels |-> AttachmentModels(bundle.attachments),
         modelId |-> metadata["model-id"],
         modelName |-> metadata["model-name"],
         metadata |-> metadata,
         policies |-> bundle.policies,
         evidence |-> bundleEvidence,
         qaDict |-> extractQADictionary(bundleEvidence, bundle.policies),
         evidenceFiles |->
            extractFilesFromQA(extractQADictionary(bundleEvidence, bundle.policies))]

\* Mutant: every row is pushed
KeepEveryRow(row) == TRUE

\* The test a row passes to be pushed to appState.tableData
KeepRow(row) ==
    /\ Truthy(row.modelName)
    /\ row.modelName.t = "string"
    /\ trim(row.modelName.s) /= <<>>
    /\ toLowerCase(row.modelName.s) /= <<"u","n","k","n","o","w","n">>

\* idA = a.modelId || '' ; idA.replace raises a TypeError unless idA is a string
IdThrows(row) == Truthy(row.modelId) /\ row.modelId.t /= "string"
IdOf(row) == IF row.modelId.t = "string" THEN row.modelId.s ELSE <<>>

\* parseInt(id.replace(/\D/g, '')) || 0
NumOf(id) == DecimalValue(StripNonDigits(id))

\* The comparator handed to Array.prototype.sort
CompareRows(a, b) ==
    IF NumOf(IdOf(a)) /= NumOf(IdOf(b))
    THEN NumOf(IdOf(a)) - NumOf(IdOf(b))
    ELSE localeCompare(IdOf(a), IdOf(b))

\* Array.prototype.sort is stable: x goes behind every element not above it
RECURSIVE InsertRow(_, _)
InsertRow(sorted, x) ==
    IF sorted = <<>> THEN <<x>>
    ELSE IF CompareRows(Head(sorted), x) <= 0
         THEN <<Head(sorted)>> \o InsertRow(Tail(sorted), x)
         ELSE <<x>> \o sorted

RECURSIVE SortRows(_, _)
SortRows(rows, sorted) ==
    IF rows = <<>> THEN sorted
    ELSE SortRows(Tail(rows), InsertRow(sorted, Head(rows)))

\* sort calls the comparator on every element once the array holds two
SortThrows(rows) == Len(rows) >= 2 /\ \E i \in 1..Len(rows) : IdThrows(rows[i])

-----------------------------------------------------------------------------
(* fetchAllData *)

\* How a request ends: the response's JSON body, a rejected fetch, a response
\* that is not ok, or an ok response whose body does not parse
Kinds == {"ok", "rejected", "http_error", "bad_json"}

\* Mutant: the status of the response is not looked at
ResponseFailsNoStatusCheck(kind) == kind = "rejected"

\* await proxyFetch(...) raises, or the response is not ok (the throw that follows)
ResponseFails(kind) == kind \in {"rejected", "http_error"}

\* await response.json() raises
BodyFails(kind) == kind = "bad_json"

\* Mutant: the state of the bundle is not tested
FilterBundlesAnyState(data) ==
    SelectSeq(data, LAMBDA bundle :
        \E i \in 1..Len(bundle.policies) :
            bundle.policies[i].policyId = HARDCODED_POLICY_ID)

\* bundlesData.data?.filter(...) || []
FilterBundles(data) ==
    SelectSeq(data, LAMBDA bundle :
        /\ bundle.state /= "Archived"
        /\ \E i \in 1..Len(bundle.policies) :
              bundle.policies[i].policyId = HARDCODED_POLICY_ID)

BundleIds(list) == {list[i].id : i \in 1..Len(list)}

\* Mutant: the spread comes last, so an entry keeps the source it brought
TagResultsSpreadLast(results) ==
    [i \in 1..Len(results) |->
        IF results[i].source = "" THEN [results[i] EXCEPT !.source = "result"]
        ELSE results[i]]

\* (data.results || []).map(result => ({...result, source: 'result'}))
TagResults(results) ==
    [i \in 1..Len(results) |-> [results[i] EXCEPT !.source = "result"]]

\* appState.policies after "if (data.policy) appState.policies[data.policy.id] = data.policy"
StorePolicy(known, policy) ==
    IF policy = <<>> THEN known
    ELSE (policy[1].id :> policy[1]) @@ known

\* Mutant: the per-bundle callback has no try/catch of its own
RethrowFailure(r, b) == [r EXCEPT ![b] = "rejected"]

\* The per-bundle catch: the failure is logged and the callback's promise is
\* fulfilled, nothing stored for the bundle
CatchFailure(r, b) == [r EXCEPT ![b] = "caught"]

\* Mutant: the first promise to end releases the barrier
PromiseRace(r) == DOMAIN r = {} \/ \E b \in DOMAIN r : r[b] \in {"stored", "caught"}

\* Mutant: the barrier is not awaited
PromiseNotAwaited(r) == TRUE

\* Promise.all(evidencePromises) is fulfilled: every per-bundle promise is
PromiseAll(r) == \A b \in DOMAIN r : r[b] \in {"stored", "caught"}

\* Promise.all(evidencePromises) is rejected: one per-bundle promise is
PromiseAllRejects(r) == \E b \in DOMAIN r : r[b] = "rejected"

\* fetchAllData returns false and initializeDashboard writes its message
LoadFailed ==
    /\ pc' = "failed"
    /\ tbody' = "failed"
    /\ UNCHANGED <<srvBundles, srvCompute, hung, req, bundles, policies, evidence,
                   tableData, qaData>>

\* DOMContentLoaded: showLoading(), then fetchAllData issues the bundles request
InitializeDashboard ==
    /\ pc = "start"
    /\ pc' = "fetchBundles"
    /\ tbody' = "loading"
    /\ UNCHANGED <<srvBundles, srvCompute, hung, req, bundles, policies, evidence,
                   tableData, qaData>>
    /\ UNCHANGED <<uiVars, scanVars>>

\* The bundles request ends
BundlesResponse ==
    /\ pc = "fetchBundles"
    /\ IF ResponseFails(srvBundles.kind)
       THEN LoadFailed
       ELSE /\ pc' = "bundlesBody"
            /\ UNCHANGED <<srvBundles, srvCompute, hung, req, bundles, policies,
                           evidence, tableData, qaData, tbody>>
    /\ UNCHANGED <<uiVars, scanVars>>

\* The bundles body is read: filter, store, issue one compute-policy request per
\* bundle (each async callback runs up to its first await), then Promise.all
BundlesBody ==
    /\ pc = "bundlesBody"
    /\ IF BodyFails(srvBundles.kind)
       THEN LoadFailed
       ELSE /\ bundles' = FilterBundles(srvBundles.data)
            /\ req' = [b \in BundleIds(FilterBundles(srvBundles.data)) |-> "inflight"]
            /\ pc' = "awaitAll"
            /\ UNCHANGED <<srvBundles, srvCompute, hung, policies, evidence,
                           tableData, qaData, tbody>>
    /\ UNCHANGED <<uiVars, scanVars>>

\* The compute-policy request of bundle b ends
ComputeResponse(b) ==
    /\ b \in DOMAIN req
    /\ req[b] = "inflight"
    /\ b \notin hung
    /\ req' = IF ResponseFails(srvCompute[b].kind)
              THEN CatchFailure(req, b)
              ELSE [req EXCEPT ![b] = "body"]
    /\ UNCHANGED <<srvBundles, srvCompute, hung, pc, bundles, policies, evidence,
                   tableData, qaData, tbody>>
    /\ UNCHANGED <<uiVars, scanVars>>

\* The compute-policy body of bundle b is read: store the policy and the results
ComputeBody(b) ==
    /\ b \in DOMAIN req
    /\ req[b] = "body"
    /\ IF BodyFails(srvCompute[b].kind)
       THEN /\ req' = CatchFailure(req, b)
            /\ UNCHANGED <<policies, evidence>>
       ELSE /\ policies' = StorePolicy(policies, srvCompute[b].policy)
            /\ evidence' = (b :> TagResults(srvCompute[b].results)) @@ evidence
            /\ req' = [req EXCEPT ![b] = "stored"]
    /\ UNCHANGED <<srvBundles, srvCompute, hung, pc, bundles, tableData, qaData, tbody>>
    /\ UNCHANGED <<uiVars, scanVars>>

\* await Promise.all(...) ends: rejected, the outer catch returns false;
\* fulfilled, fetchAllData returns true and processData is called
FetchAllDataReturn ==
    /\ pc = "awaitAll"
    /\ IF PromiseAllRejects(req)
       THEN LoadFailed
       ELSE /\ PromiseAll(req)
            /\ pc' = "processData"
            /\ UNCHANGED <<srvBundles, srvCompute, hung, req, bundles, policies,
                           evidence, tableData, qaData, tbody>>
    /\ UNCHANGED <<uiVars, scanVars>>

-----------------------------------------------------------------------------
(* processData and renderTable *)

\* processData runs to its end without an await; a TypeError in the loop over
\* the bundles or in the comparator rejects it, and initializeDashboard with
\* it: the rows pushed and the dictionaries stored before the raise stay
ProcessData ==
    /\ pc = "processData"
    /\ LET raising == {i \in 1..Len(bundles) : RowThrows(bundles[i])}
           done == IF raising = {} THEN Len(bundles)
                   ELSE (CHOOSE i \in raising : \A j \in raising : i <= j) - 1
           rows == [i \in 1..done |-> BuildRow(bundles[i])]
           kept == SelectSeq(rows, KeepRow)
       IN  /\ qaData' = [b \in {bundles[i].id : i \in 1..done} |->
                            (CHOOSE row \in {rows[i] : i \in 1..Len(rows)} :
                                row.bundleId = b).qaDict]
           /\ IF raising /= {} \/ SortThrows(kept)
              THEN tableData' = kept /\ pc' = "rejected"
              ELSE tableData' = SortRows(kept, <<>>) /\ pc' = "renderTable"
    /\ UNCHANGED <<srvBundles, srvCompute, hung, req, bundles, policies, evidence, tbody>>
    /\ UNCHANGED <<uiVars, scanVars>>

Ceil(n, d) == (n + d - 1) \div d

\* model.criticality?.toLowerCase() raises a TypeError unless the value is a string
CellThrows(row) ==
    \E key \in {"criticality", "complexity"} :
        Truthy(row.metadata[key]) /\ row.metadata[key].t /= "string"

\* The detail row, action button and Q/A container renderTable writes for a row
RenderedRow(row) ==
    LET n == Len(row.qaDict)
    IN  [show |-> FALSE, rotated |-> FALSE, expanded |-> FALSE, label |-> "Details",
         items |-> n,
         currentPage |-> 0,
         display |-> [i \in 1..n |-> ""],
         controls |-> n > itemsPerPage,
         prevDisabled |-> TRUE,
         nextDisabled |-> FALSE,
         pageInfo |-> [page |-> 1, of |-> Ceil(n, itemsPerPage)]]

RenderTable ==
    /\ pc = "renderTable"
    /\ IF tableData = <<>>
       THEN /\ tbody' = "empty"
            /\ pc' = "ready"
            /\ UNCHANGED uiVars
       ELSE IF \E i \in 1..Len(tableData) : CellThrows(tableData[i])
       THEN /\ pc' = "rejected"
            /\ UNCHANGED <<tbody, uiVars>>
       ELSE /\ tbody' = "rows"
            /\ pc' = "ready"
            /\ dom' = [i \in 1..Len(tableData) |-> RenderedRow(tableData[i])]
            /\ timer' = TRUE
            /\ UNCHANGED clipboard
    /\ UNCHANGED <<srvBundles, srvCompute, hung, req, bundles, policies, evidence,
                   tableData, qaData>>
    /\ UNCHANGED scanVars

-----------------------------------------------------------------------------
(* The handlers of the rendered table *)

\* setTimeout(() => initializeQAPagination(), 0): in every Q/A container the
\* items past the first page are hidden
InitializeQAPagination ==
    /\ timer
    /\ timer' = FALSE
    /\ UNCHANGED clipboard
    /\ dom' = [r \in 1..Len(dom) |->
                [dom[r] EXCEPT !.display =
                    [i \in 1..dom[r].items |->
                        IF i - 1 >= itemsPerPage THEN "none" ELSE dom[r].display[i]]]]
    /\ UNCHANGED <<loadVars, scanVars>>

Max(a, b) == IF a >= b THEN a ELSE b
Min(a, b) == IF a <= b THEN a ELSE b

\* Mutant: the next control is compared with the page count, not the last page
PagedOffByOne(row, direction) ==
    LET totalPages == Ceil(row.items, itemsPerPage)
        currentPage == Max(0, Min(row.currentPage + direction, totalPages - 1))
    IN  [row EXCEPT !.currentPage = currentPage,
                    !.prevDisabled = IF row.controls THEN currentPage = 0 ELSE @,
                    !.nextDisabled = IF row.controls THEN currentPage = totalPages ELSE @,
                    !.pageInfo = IF row.controls
                                 THEN [page |-> currentPage + 1, of |-> totalPages] ELSE @]

\* The Q/A container and its controls after changeQAPage(index, direction);
\* the controls exist only when renderTable wrote them
Paged(row, direction) ==
    LET totalPages == Ceil(row.items, itemsPerPage)
        currentPage == Max(0, Min(row.currentPage + direction, totalPages - 1))
        startIndex == currentPage * itemsPerPage
        endIndex == Min(startIndex + itemsPerPage, row.items)
    IN  [row EXCEPT !.currentPage = currentPage,
                    !.display = [i \in 1..row.items |->
                                    IF startIndex <= i - 1 /\ i - 1 < endIndex
                                    THEN "block" ELSE "none"],
                    !.prevDisabled = IF row.controls THEN currentPage = 0 ELSE @,
                    !.nextDisabled = IF row.controls THEN currentPage = totalPages - 1 ELSE @,
                    !.pageInfo = IF row.controls
                                 THEN [page |-> currentPage + 1, of |-> totalPages] ELSE @]

\* changeQAPage(bundleIndex, direction) on a row whose Q/A container exists
ChangeQAPage(index, direction) ==
    /\ index \in 1..Len(dom)
    /\ dom[index].items > 0
    /\ dom' = [dom EXCEPT ![index] = Paged(dom[index], direction)]
    /\ UNCHANGED <<timer, clipboard>>
    /\ UNCHANGED <<loadVars, scanVars>>

\* Mutant: the other rows are not closed first
ToggledOnlyOwn(rows, index) ==
    [r \in 1..Len(rows) |->
        IF r = index
        THEN [rows[r] EXCEPT !.show = ~rows[index].show,
                             !.rotated = ~rows[index].show,
                             !.expanded = ~rows[index].show,
                             !.label = IF rows[index].show THEN "Details" ELSE "Close"]
        ELSE rows[r]]

\* The rows after toggleDetails(button, index), button being the action button
\* of row index: every row is closed, then row index opened unless it was open
Toggled(rows, index) ==
    [r \in 1..Len(rows) |->
        LET closed == [rows[r] EXCEPT !.show = FALSE,
                                      !.rotated = FALSE,
                                      !.expanded = FALSE,
                                      !.label = IF rows[r].expanded THEN "Details" ELSE @]
        IN  IF r = index /\ ~rows[index].show
            THEN [closed EXCEPT !.show = TRUE, !.rotated = TRUE,
                                !.expanded = TRUE, !.label = "Close"]
            ELSE closed]

\* toggleDetails(this, index), from the onclick of the row's action button
ToggleDetails(index) ==
    /\ index \in 1..Len(dom)
    /\ dom' = Toggled(dom, index)
    /\ UNCHANGED <<timer, clipboard>>
    /\ UNCHANGED <<loadVars, scanVars>>

-----------------------------------------------------------------------------
(* copyQAToClipboard and flattenJSONForSheets *)

\* a || b on values
JOr(a, b) == IF Truthy(a) THEN a ELSE b

\* typeof v === 'object'
TypeofObject(v) == v.t \in {"object", "array", "null"}

DirectoriesKey == <<"d","i","r","e","c","t","o","r","i","e","s">>

\* Object.entries(v)
Entries(v) ==
    CASE v.t = "object" -> v.f
      [] v.t = "array" -> [i \in 1..Len(v.f) |-> Field(NumToString(i - 1), v.f[i])]
      [] v.t = "string" -> [i \in 1..Len(v.s) |-> Field(NumToString(i - 1), JStr(<<v.s[i]>>))]
      [] OTHER -> <<>>

\* An item of an array of objects: k=JSON.stringify(v) of its entries, joined by '; '
ObjectPairs(item) ==
    JoinWith([i \in 1..Len(Entries(item)) |->
                Entries(item)[i].k \o <<"=">> \o Stringify(Entries(item)[i].v)],
             <<";", " ">>)

\* parsed.files is an array that is not empty
HasFiles(parsed) ==
    /\ Truthy(Get(parsed, FilesKey))
    /\ Get(parsed, FilesKey).t = "array"
    /\ Len(Get(parsed, FilesKey).f) > 0

\* The flattening raises a TypeError: Object.entries(null) over the items of
\* an array, f.name of a null file
FlattenThrows(parsed) ==
    CASE parsed.t = "array" ->
            /\ Len(parsed.f) > 0
            /\ TypeofObject(parsed.f[1])
            /\ \E i \in 1..Len(parsed.f) : parsed.f[i].t = "null"
      [] parsed.t = "object" ->
            /\ Truthy(Get(parsed, CommitKey)) \/ Truthy(Get(parsed, FilesKey))
            /\ HasFiles(parsed)
            /\ \E i \in 1..Len(Get(parsed, FilesKey).f) : Get(parsed, FilesKey).f[i].t = "null"
      [] OTHER -> FALSE

\* The text of a parsed array or object
FlattenParsed(parsed) ==
    CASE parsed.t = "array" ->
            IF Len(parsed.f) = 0 THEN <<>>
            ELSE IF TypeofObject(parsed.f[1])
            THEN JoinWith([i \in 1..Len(parsed.f) |-> ObjectPairs(parsed.f[i])],
                          <<" ", "|", " ">>)
            ELSE ArrayJoin(parsed.f, <<",", " ">>)
      [] parsed.t = "object" ->
            LET files == Get(parsed, FilesKey)
                directories == Get(parsed, DirectoriesKey)
            IN  IF Truthy(Get(parsed, CommitKey))
                THEN JoinWith(
                        << <<"c","o","m","m","i","t","=">> \o StringOf(Get(parsed, CommitKey)) >>
                        \o (IF HasFiles(parsed)
                            THEN << <<"f","i","l","e","s","=">>
                                    \o ArrayJoin([i \in 1..Len(files.f) |->
                                                    JOr(Get(files.f[i], NameKey), files.f[i])],
                                                 <<",", " ">>) >>
                            ELSE <<>>)
                        \o (IF Truthy(directories) /\ directories.t = "array"
                               /\ Len(directories.f) > 0
                            THEN << <<"d","i","r","e","c","t","o","r","i","e","s","=">>
                                    \o ArrayJoin(directories.f, <<",", " ">>) >>
                            ELSE <<>>),
                        <<";", " ">>)
                ELSE IF Truthy(files)
                THEN IF HasFiles(parsed)
                     THEN ArrayJoin(
                            [i \in 1..Len(files.f) |->
                                IF TypeofObject(files.f[i])
                                THEN JStr(trim(
                                        StringOf(JOr(Get(files.f[i], NameKey),
                                                     JOr(Get(files.f[i], PathKey),
                                                         JStr(<<"f","i","l","e">>))))
                                        \o <<" ", "(">>
                                        \o StringOf(JOr(Get(files.f[i], SizeLabelKey), JStr(<<>>)))
                                        \o <<")">>))
                                ELSE files.f[i]],
                            <<",", " ">>)
                     ELSE <<>>
                ELSE LET kept == SelectSeq(parsed.f,
                                    LAMBDA fd : /\ fd.v.t \notin {"null", "undefined"}
                                                /\ ~(fd.v.t = "array" /\ Len(fd.v.f) = 0))
                     IN  JoinWith([i \in 1..Len(kept) |->
                                    kept[i].k \o <<"=">>
                                    \o (IF kept[i].v.t = "array"
                                        THEN ArrayJoin(kept[i].v.f, <<",", " ">>)
                                        ELSE IF kept[i].v.t = "object"
                                        THEN Stringify(kept[i].v)
                                        ELSE StringOf(kept[i].v))],
                                  <<";", " ">>)
      [] OTHER -> StringOf(parsed)

\* trimmed is delimited by braces or by brackets
Delimited(trimmed) ==
    /\ trimmed /= <<>>
    /\ \/ Head(trimmed) = "{" /\ trimmed[Len(trimmed)] = "}"
       \/ Head(trimmed) = "[" /\ trimmed[Len(trimmed)] = "]"

\* parsed of flattenJSONForSheets: nothing when the value is returned as it is
SheetParsed(value) ==
    CASE IsObject(value) -> <<value>>
      [] value.t = "string" /\ Delimited(trim(value.s)) -> JSONParse(trim(value.s))
      [] OTHER -> <<>>

flattenJSONForSheets(value) ==
    IF SheetParsed(value) /= <<>> THEN FlattenParsed(SheetParsed(value)[1])
    ELSE StringOf(value)

\* replace(/<br>/g, ' | ')
RECURSIVE ReplaceBr(_)
ReplaceBr(s) ==
    IF s = <<>> THEN <<>>
    ELSE IF Len(s) = 1 THEN (IF s[1] = Br THEN <<" ", "|", " ">> ELSE s)
    ELSE ReplaceBr(SubSeq(s, 1, Len(s) \div 2))
         \o ReplaceBr(SubSeq(s, Len(s) \div 2 + 1, Len(s)))

\* replace(/"/g, '""')
RECURSIVE DoubleQuotes(_)
DoubleQuotes(s) ==
    IF s = <<>> THEN <<>>
    ELSE IF Len(s) = 1 THEN (IF s[1] = "\"" THEN <<"\"", "\"">> ELSE s)
    ELSE DoubleQuotes(SubSeq(s, 1, Len(s) \div 2))
         \o DoubleQuotes(SubSeq(s, Len(s) \div 2 + 1, Len(s)))

\* The evidence id that holds quotes
QuotedId == "the \"id\""

\* The elements of a question: a question that holds no quote is one element
Chars(question) ==
    IF question = QuotedId THEN <<"t","h","e"," ","\"","i","d","\"">> ELSE <<question>>

\* The answer without <br> and bullets, trimmed
CleanAnswer(answer) ==
    JStr(trim(SelectSeq(ReplaceBr(answer.s), LAMBDA c : c /= Bullet)))

\* qaObj.answer.replace is no function of an answer that is no string, or
\* the flattening raises
EntryThrows(entry) ==
    \/ entry.answer.t /= "string"
    \/ /\ SheetParsed(CleanAnswer(entry.answer)) /= <<>>
       /\ FlattenThrows(SheetParsed(CleanAnswer(entry.answer))[1])

\* 'Question,Answer\n'
CsvHeader == <<"Q","u","e","s","t","i","o","n",",","A","n","s","w","e","r","\n">>

\* "${cleanQuestion}","${cleanAnswer}"\n
CsvLine(entry) ==
    <<"\"">> \o DoubleQuotes(Chars(entry.question)) \o <<"\"", ",", "\"">>
    \o DoubleQuotes(flattenJSONForSheets(CleanAnswer(entry.answer))) \o <<"\"", "\n">>

RECURSIVE CsvLines(_)
CsvLines(qaDict) ==
    IF qaDict = <<>> THEN <<>> ELSE CsvLine(Head(qaDict)) \o CsvLines(Tail(qaDict))

\* copyQAToClipboard(index, event), from the onclick of the row's copy
\* button: the text handed to navigator.clipboard.writeText, or the TypeError
\* that leaves the handler before it
CopyQAToClipboard(index) ==
    /\ pc = "ready"
    /\ index \in 1..Len(dom)
    /\ Len(tableData[index].qaDict) > 0
    /\ clipboard' =
          IF \E i \in 1..Len(tableData[index].qaDict) : EntryThrows(tableData[index].qaDict[i])
          THEN [index |-> index, raised |-> TRUE, text |-> <<>>]
          ELSE [index |-> index, raised |-> FALSE,
                text |-> CsvHeader \o CsvLines(tableData[index].qaDict)]
    /\ UNCHANGED <<dom, timer>>
    /\ UNCHANGED <<loadVars, scanVars>>

-----------------------------------------------------------------------------
(* The security scan *)

\* What the body of an ok scan response may be: not JSON; the JSON null; an
\* object whose issues cannot be rendered (a string, or an array holding
\* null); an object without scan counts; a full result
ScanBodies == {"bad_json", "null", "bad_issues", "no_counts", "valid"}

\* triggerSecurityScan raises on the body: response.json() rejects, or
\* result.scan is read off null
TriggerThrows(body) == body \in {"bad_json", "null"}

\* displaySecurityScanResults raises: results.issues.slice(0, 5).map or
\* issue.severity on an issue that is null
DisplayThrows(body) == body = "bad_issues"

\* The elements the error panel puts into the results container
ErrorPanel == {"div.security-scan-error", "h4", "p", "button.btn.btn-secondary"}

\* container.querySelector('.security-scan-btn') over the panel's elements
QuerySelectorScanBtn(elements) ==
    IF "button.security-scan-btn" \in elements THEN "button" ELSE "null"

\* showSecurityScanSpinner
showSecurityScanSpinner == [innerHTML |-> "spinner", disabled |-> TRUE]

\* Mutant: the label is put back, the button left disabled
HideSpinnerLeaveDisabled(originalText) == [innerHTML |-> originalText, disabled |-> TRUE]

\* hideSecurityScanSpinner
hideSecurityScanSpinner(originalText) == [innerHTML |-> originalText, disabled |-> FALSE]

\* Mutant: the invocation closes the detail rows of the table
HandleSecurityScanClosingRows(buttonElement) ==
    /\ Len(scans) < MaxScans
    /\ scans' = Append(scans, [button |-> TRUE, state |-> "scanning",
                               originalText |-> button.innerHTML])
    /\ button' = showSecurityScanSpinner
    /\ container' = IF container = "absent" THEN "empty" ELSE container
    /\ dom' = [r \in 1..Len(dom) |-> [dom[r] EXCEPT !.show = FALSE]]
    /\ UNCHANGED <<loadVars, timer, clipboard>>

\* handleSecurityScan(modelName, modelVersion, buttonElement) up to its await:
\* buttonElement.parentElement raises a TypeError on null, outside the try;
\* else the container is found or created, the spinner shown, the request sent
HandleSecurityScan(buttonElement) ==
    /\ Len(scans) < MaxScans
    /\ IF buttonElement = "null"
       THEN /\ scans' = Append(scans, [button |-> FALSE, state |-> "uncaught",
                                       originalText |-> "none"])
            /\ UNCHANGED <<button, container>>
       ELSE /\ scans' = Append(scans, [button |-> TRUE, state |-> "scanning",
                                       originalText |-> button.innerHTML])
            /\ button' = showSecurityScanSpinner
            /\ container' = IF container = "absent" THEN "empty" ELSE container
    /\ UNCHANGED <<loadVars, uiVars>>

\* A click on the scan button; a disabled button receives none
ClickScan ==
    /\ ~button.disabled
    /\ HandleSecurityScan("button")

\* A click on "Retry Scan" of the error panel: the button is looked up inside
\* the results container, this.parentElement.parentElement
ClickRetry ==
    /\ container \in {"error:request", "error:body", "error:display"}
    /\ HandleSecurityScan(QuerySelectorScanBtn(ErrorPanel))

\* The catch and the finally of handleSecurityScan
ScanFailed(i, message) ==
    /\ scans' = [scans EXCEPT ![i].state = "failed"]
    /\ container' = message
    /\ button' = hideSecurityScanSpinner(scans[i].originalText)

\* The scan request of invocation i ends
ScanResponse(i) ==
    /\ scans[i].state = "scanning"
    /\ \E kind \in {"ok", "rejected", "http_error"} :
          IF ResponseFails(kind)
          THEN ScanFailed(i, "error:request")
          ELSE /\ scans' = [scans EXCEPT ![i].state = "body"]
               /\ UNCHANGED <<button, container>>
    /\ UNCHANGED <<loadVars, uiVars>>

\* The body of the scan response is read and the results are displayed
ScanBody(i) ==
    /\ scans[i].state = "body"
    /\ \E body \in ScanBodies :
          IF TriggerThrows(body) THEN ScanFailed(i, "error:body")
          ELSE IF DisplayThrows(body) THEN ScanFailed(i, "error:display")
          ELSE /\ scans' = [scans EXCEPT ![i].state = "success"]
               /\ container' = "results"
               /\ button' = hideSecurityScanSpinner(scans[i].originalText)
    /\ UNCHANGED <<loadVars, uiVars>>

-----------------------------------------------------------------------------
(* The inputs: what the governance API answers *)

BundleIdAt == <<"b1", "b2", "b3", "b4">>
IndexOf(b) == CHOOSE i \in 1..Len(BundleIdAt) : BundleIdAt[i] = b

EvidenceDef(id, name, externalId) == [id |-> id, name |-> name, externalId |-> externalId]

\* The policy compute-policy returns for HARDCODED_POLICY_ID
ThePolicy ==
    [id |-> HARDCODED_POLICY_ID,
     stages |-> << [evidenceSet |-> << EvidenceDef("ev-id", "Model ID", "model-id"),
                                       EvidenceDef("ev-name", "Model Name", "model-name") >>],
                   [evidenceSet |-> << EvidenceDef("ev-bl", "", "business-line") >>] >>]

\* An entry of data.results
Result(evidenceId, artifactContent, source) ==
    [evidenceId |-> evidenceId, artifactContent |-> artifactContent, source |-> source]

ModelVersion(name, version) ==
    [type |-> "ModelVersion", identifier |-> TRUE, name |-> name, version |-> version]

BundleShapes == {"active", "archived", "foreign", "second", "unattached"}

\* A bundle of the list: active with the policy attached; archived with the
\* policy attached; active with another policy only; active with another
\* policy and then the policy; active with no policy list (an absent list and
\* an empty one alike have no policy for which the test holds)
Bundle(i, shape) ==
    [id |-> BundleIdAt[i],
     state |-> IF shape = "archived" THEN "Archived" ELSE "Active",
     policies |-> CASE shape = "foreign" -> << [policyId |-> "another-policy"] >>
                    [] shape = "second" -> << [policyId |-> "another-policy"],
                                             [policyId |-> HARDCODED_POLICY_ID] >>
                    [] shape = "unattached" -> <<>>
                    [] OTHER -> << [policyId |-> HARDCODED_POLICY_ID] >>,
     attachments |-> IF i % 2 = 1 THEN << ModelVersion("model", i) >> ELSE <<>>]

FlowNames == << <<"g","p","t">>, <<"b","e","r","t">>, <<"t","f","i","v","e">>,
                <<"l","l","a","m","a">> >>
FlowModelIds == << <<"M","2">>, <<"M","1","0">>, <<"M","1">>, <<"M","3">> >>

\* The published evidence of the i-th bundle in the load flow
FlowResults(i) ==
    << Result("ev-name", JStr(FlowNames[i]), "draft"),
       Result("ev-id", JStr(FlowModelIds[i]), "") >>

\* What data.drafts may be: no draft, or a draft of the evidence the results
\* hold and a draft of evidence they do not hold
DraftLists ==
    { <<>>,
      << Result("ev-name", JStr(<<"d","r","a","f","t">>), "draft"),
         Result("ev-bl", JStr(<<"r","i","s","k">>), "draft") >> }

ComputeAnswer(kind, results) ==
    [kind |-> kind, policy |-> <<ThePolicy>>, results |-> results, drafts |-> <<>>]

\* The client before DOMContentLoaded
InitClient ==
    /\ pc = "start"
    /\ req = <<>>
    /\ bundles = <<>>
    /\ policies = <<>>
    /\ evidence = <<>>
    /\ tableData = <<>>
    /\ qaData = <<>>
    /\ tbody = "static"
    /\ dom = <<>>
    /\ timer = FALSE
    /\ clipboard = NoCopy

InitScan ==
    /\ scans = <<>>
    /\ button = [innerHTML |-> "label", disabled |-> FALSE]
    /\ container = "absent"

\* The server's answers in the load flow: the list holds up to MaxBundles bundles
InitServer ==
    \E kind \in Kinds, n \in 0..MaxBundles :
      \E shapes \in [1..n -> BundleShapes], kinds \in [1..n -> Kinds],
         drafts \in [1..n -> DraftLists] :
        /\ kind /= "ok" => n = 0
        /\ \A i \in 1..n : shapes[i] \notin {"active", "second"} => kinds[i] = "ok"
        /\ \A i \in 1..n : shapes[i] /= "active" => drafts[i] = <<>>
        /\ \A i \in 1..n : kinds[i] /= "ok" => drafts[i] = <<>>
        /\ srvBundles = [kind |-> kind, data |-> [i \in 1..n |-> Bundle(i, shapes[i])]]
        /\ srvCompute = [b \in {BundleIdAt[i] : i \in 1..n} |->
                            [ComputeAnswer(kinds[IndexOf(b)], FlowResults(IndexOf(b)))
                                EXCEPT !.drafts = drafts[IndexOf(b)]]]

Init ==
    /\ InitServer
    /\ hung = {}
    /\ InitClient
    /\ InitScan

Next ==
    \/ InitializeDashboard
    \/ BundlesResponse
    \/ BundlesBody
    \/ \E b \in DOMAIN req : ComputeResponse(b)
    \/ \E b \in DOMAIN req : ComputeBody(b)
    \/ FetchAllDataReturn
    \/ ProcessData
    \/ RenderTable
    \/ InitializeQAPagination

Spec == Init /\ [][Next]_vars

-----------------------------------------------------------------------------
(* The row builder over wider evidence: the state fetchAllData leaves when the
   server answered every request *)

\* No evidence of that kind in the results
JAbsent == [t |-> "absent", s |-> <<>>, n |-> 0, f |-> <<>>]

\* What the model-name evidence may carry
NameValues ==
    { JAbsent, JNull, JNum(7), JStr(<<>>), JStr(<<" ">>),
      JStr(<<"u","n","k","n","o","w","n">>),
      JStr(<<"U","n","k","n","o","w","n">>),
      JStr(<<" ","u","n","k","n","o","w","n"," ">>),
      JStr(<<"g","p","t">>),
      JStr(<<" ","m"," ">>) }

\* What the model-id evidence may carry
ModelIdValues ==
    { JAbsent, JNum(3),
      JStr(<<"M","5">>), JStr(<<"M","1","-","2">>), JStr(<<"M","1","0">>),
      JStr(<<"M","0","5">>), JStr(<<"M","A">>) }

RowResults(name, id) ==
    (IF name = JAbsent THEN <<>> ELSE << Result("ev-name", name, "") >>)
    \o (IF id = JAbsent THEN <<>> ELSE << Result("ev-id", id, "") >>)

\* The state in which fetchAllData returns true for this list and these results
Fetched(list, results) ==
    /\ srvBundles = [kind |-> "ok", data |-> list]
    /\ srvCompute = [b \in BundleIds(list) |-> ComputeAnswer("ok", results[IndexOf(b)])]
    /\ hung = {}
    /\ pc = "processData"
    /\ req = [b \in BundleIds(list) |-> "stored"]
    /\ bundles = list
    /\ policies = (HARDCODED_POLICY_ID :> ThePolicy)
    /\ evidence = [b \in BundleIds(list) |-> TagResults(results[IndexOf(b)])]
    /\ tableData = <<>>
    /\ qaData = <<>>
    /\ tbody = "loading"
    /\ dom = <<>>
    /\ timer = FALSE
    /\ clipboard = NoCopy

InitRows ==
    /\ \E n \in 1..MaxRows :
         \E names \in [1..n -> NameValues], ids \in [1..n -> ModelIdValues] :
            Fetched([i \in 1..n |-> Bundle(i, "active")],
                    [i \in 1..n |-> RowResults(names[i], ids[i])])
    /\ InitScan

NextRows ==
    \/ ProcessData
    \/ RenderTable
    \/ InitializeQAPagination

SpecRows == InitRows /\ [][NextRows]_vars

-----------------------------------------------------------------------------
(* The rendered table: rows whose evidence gives Q/A lists of every length.
   The handlers treat every row alike, so the lengths are taken in
   non-increasing order of the rows. *)

QuestionIds == <<"q1", "q2", "q3", "q4", "q5", "q6", "q7", "q8", "q9", "q10", "q11">>

\* n results: the model name, then n - 1 answers to questions the policy does
\* not define
QAResults(i, n) ==
    [k \in 1..n |-> IF k = 1 THEN Result("ev-name", JStr(FlowNames[i]), "")
                    ELSE Result(QuestionIds[k], JStr(<<"y","e","s">>), "")]

InitUI ==
    /\ \E n \in 1..MaxUIRows :
         \E sizes \in [1..n -> 1..MaxQA] :
            /\ \A i \in 1..(n - 1) : sizes[i] >= sizes[i + 1]
            /\ Fetched([i \in 1..n |-> Bundle(i, "active")],
                       [i \in 1..n |-> QAResults(i, sizes[i])])
    /\ InitScan

NextUI ==
    \/ ProcessData
    \/ RenderTable
    \/ InitializeQAPagination
    \/ \E index \in 1..Len(dom) : \E direction \in {-1, 1} : ChangeQAPage(index, direction)
    \/ \E index \in 1..Len(dom) : ToggleDetails(index)

SpecUI == InitUI /\ [][NextUI]_vars

-----------------------------------------------------------------------------
(* The security scan from the page's scan button *)

InitScans ==
    /\ srvBundles = [kind |-> "ok", data |-> <<>>]
    /\ srvCompute = <<>>
    /\ hung = {}
    /\ InitClient
    /\ InitScan

NextScans ==
    \/ ClickScan
    \/ ClickRetry
    \/ \E i \in 1..Len(scans) : ScanResponse(i)
    \/ \E i \in 1..Len(scans) : ScanBody(i)

SpecScans == InitScans /\ [][NextScans]_vars

\* The load flow in which the requests named by hung never complete and every
\* other request does: the event loop runs every callback that is ready
InitHung ==
    /\ InitServer
    /\ hung \in {{b} : b \in DOMAIN srvCompute}
    /\ InitClient
    /\ InitScan

SpecHung == InitHung /\ [][Next]_vars /\ WF_vars(Next)

-----------------------------------------------------------------------------
(* Properties of the load flow *)

Settled(b) == b \in DOMAIN req /\ req[b] \in {"stored", "caught"}
ComputeFailed(b) == srvCompute[b].kind /= "ok"
AfterFetch == pc \in {"processData", "renderTable", "ready", "rejected"}
AfterProcess == pc \in {"renderTable", "ready", "rejected"}

\* C7: a failed compute-policy fetch of one bundle does not abort the load
\* (fetchAllData does not return false); once fetchAllData has returned, every
\* bundle whose fetch succeeded has exactly its tagged results in
\* appState.evidence and a failed bundle has no entry; processData gives the
\* failed bundle the Q/A dictionary of an empty evidence list.
C7_FailedFetchIsolated ==
    /\ (\E b \in DOMAIN req : Settled(b) /\ ComputeFailed(b)) => pc /= "failed"
    /\ srvBundles.kind = "ok" => pc /= "failed"
    /\ AfterFetch =>
          \A b \in BundleIds(bundles) :
              IF ComputeFailed(b)
              THEN b \notin DOMAIN evidence
              ELSE /\ b \in DOMAIN evidence
                   /\ evidence[b] = TagResults(srvCompute[b].results)
    /\ AfterProcess =>
          \A b \in BundleIds(bundles) : ComputeFailed(b) => qaData[b] = <<>>

\* Witness of C7: the load went through with one bundle failed and another stored
C7_Witness ==
    /\ pc = "ready"
    /\ \E b \in BundleIds(bundles) : ComputeFailed(b) /\ b \notin DOMAIN evidence
    /\ \E b \in BundleIds(bundles) : ~ComputeFailed(b) /\ Len(evidence[b]) = 2
    /\ Len(tableData) = 1

\* C8: when the bundle-list fetch fails (rejected, not ok, or an unparseable
\* body) the load is aborted: no compute-policy request is issued, processData
\* and renderTable never run, appState.tableData stays empty, and once
\* fetchAllData has returned false the table body shows "Failed to load data".
C8_BundleListFailureAborts ==
    srvBundles.kind /= "ok" =>
        /\ pc \in {"start", "fetchBundles", "bundlesBody", "failed"}
        /\ DOMAIN req = {}
        /\ tableData = <<>>
        /\ DOMAIN qaData = {}
        /\ dom = <<>>
        /\ tbody \in {"static", "loading", "failed"}
        /\ pc = "failed" <=> tbody = "failed"

\* Witness of C8: the body of the bundle list did not parse and the message is shown
C8_Witness ==
    /\ srvBundles.kind = "bad_json"
    /\ pc = "failed"
    /\ tbody = "failed"

\* C9: the compute-policy requests of all filtered bundles are issued together,
\* before any of them is awaited, and processData and renderTable run only
\* when every one of them has ended, with its results stored or in its catch.
C9_BarrierBeforeProcessing ==
    /\ pc \in {"awaitAll", "processData", "renderTable", "ready", "rejected"}
          => DOMAIN req = BundleIds(bundles)
    /\ AfterFetch => \A b \in DOMAIN req : Settled(b)
    /\ (tableData /= <<>> \/ DOMAIN qaData /= {} \/ tbody \in {"rows", "empty"})
          => \A b \in DOMAIN req : Settled(b)

\* Witness of C9: processData is about to run over two bundles, both ended
C9_Witness ==
    /\ pc = "processData"
    /\ Cardinality(DOMAIN req) = 2
    /\ \A b \in DOMAIN req : Settled(b)

HungIssued == \E b \in hung : b \in DOMAIN req

\* C10 as claimed: with one compute-policy request never completing and all
\* the others completing, the load still comes to its end.
C10_HungStallsOnlyItself == <>(pc \in {"ready", "failed", "rejected"})

\* C10 as amended: while a compute-policy request is outstanding the barrier
\* holds; a request that never completes keeps fetchAllData at Promise.all,
\* processData never runs and the table stays on "Loading models...".
C10_HungStallsLoad ==
    HungIssued =>
        /\ pc = "awaitAll"
        /\ tbody = "loading"
        /\ tableData = <<>>
        /\ DOMAIN qaData = {}

\* Witness of C10: every other request has ended and the load still waits
C10_Witness ==
    /\ HungIssued
    /\ Cardinality(DOMAIN req) = 2
    /\ \E b \in DOMAIN req : Settled(b) /\ ~ComputeFailed(b)
    /\ \A b \in DOMAIN req \ hung : Settled(b)

-----------------------------------------------------------------------------
(* Properties of the row builder *)

ProcessDataDone == pc \in {"renderTable", "ready"}

Unknown == <<"u","n","k","n","o","w","n">>

\* A model name the contract accepts: a string, not empty and not "unknown"
\* once trimmed, whatever its case
UsableName(v) ==
    /\ v.t = "string"
    /\ trim(v.s) /= <<>>
    /\ toLowerCase(trim(v.s)) /= Unknown

\* C1: after processData every row of appState.tableData has a modelName that
\* is a string, non-empty after trimming and, trimmed and lower-cased, not
\* "unknown".
C1_RowsHaveUsableName ==
    AfterProcess => \A i \in 1..Len(tableData) : UsableName(tableData[i].modelName)

\* The digits an id ends with, and their value (0 when it ends with none)
RECURSIVE TrailingDigits(_)
TrailingDigits(id) ==
    IF id = <<>> \/ ~IsDigit(id[Len(id)]) THEN <<>>
    ELSE Append(TrailingDigits(SubSeq(id, 1, Len(id) - 1)), id[Len(id)])

NumericSuffix(id) == DecimalValue(TrailingDigits(id))

\* C2: after processData adjacent rows are in non-decreasing order of the
\* numeric suffix of modelId, and in the order of the id strings when the
\* suffixes are equal.
C2_SortedByNumericSuffix ==
    ProcessDataDone =>
        \A i \in 1..(Len(tableData) - 1) :
            LET a == IdOf(tableData[i])
                b == IdOf(tableData[i + 1])
            IN  \/ NumericSuffix(a) < NumericSuffix(b)
                \/ NumericSuffix(a) = NumericSuffix(b) /\ localeCompare(a, b) <= 0

-----------------------------------------------------------------------------
(* Properties of the rendered table *)

\* C3: for a Q/A list of N items with page size 4, in the rendered state and
\* after every changeQAPage, the label shows the current page of ceil(N/4)
\* pages, the previous control is disabled exactly on page 0 and the next
\* control exactly on the last page. renderTable writes the controls and the
\* label exactly for lists of more than 4 items; a shorter list has one page
\* and stays on it.
C3_PaginationControlsWhenRendered ==
    \A r \in 1..Len(dom) :
        /\ dom[r].controls <=> dom[r].items > itemsPerPage
        /\ dom[r].controls =>
              /\ dom[r].pageInfo = [page |-> dom[r].currentPage + 1,
                                    of |-> Ceil(dom[r].items, itemsPerPage)]
              /\ dom[r].prevDisabled <=> dom[r].currentPage = 0
              /\ dom[r].nextDisabled <=>
                    dom[r].currentPage = Ceil(dom[r].items, itemsPerPage) - 1
        /\ ~dom[r].controls => dom[r].currentPage = 0

\* Witness of C3: a list of three pages stands on its last page after paging
C3_Witness ==
    \E r \in 1..Len(dom) :
        /\ dom[r].items = 9
        /\ dom[r].currentPage = 2
        /\ dom[r].nextDisabled
        /\ ~dom[r].prevDisabled
        /\ dom[r].display[9] = "block"

\* C4: at most one detail row is expanded, and the action buttons agree with
\* the rows: a row's button is marked expanded, labelled "Close" and its arrow
\* rotated exactly when its detail row is shown.
C4_SingleExpandedRow ==
    /\ Cardinality({r \in 1..Len(dom) : dom[r].show}) <= 1
    /\ \A r \in 1..Len(dom) :
          /\ dom[r].expanded <=> dom[r].show
          /\ dom[r].rotated <=> dom[r].show
          /\ dom[r].label = IF dom[r].show THEN "Close" ELSE "Details"

\* C4, the steps: opening a row leaves it the only one shown, toggling the
\* shown row leaves none shown.
C4_ToggleSteps ==
    [][\A index \in 1..Len(dom) :
          ToggleDetails(index) =>
              {r \in 1..Len(dom) : dom'[r].show}
                  = IF dom[index].show THEN {} ELSE {index}]_vars

C4_OneRowAtATime == []C4_SingleExpandedRow /\ C4_ToggleSteps

\* Witness of C4: the second row is open after the first one was
C4_Witness ==
    /\ Len(dom) = 2
    /\ dom[2].show
    /\ ~dom[1].show
    /\ dom[1].label = "Details"
    /\ dom[2].label = "Close"

-----------------------------------------------------------------------------
(* Properties of the security scan *)

InFlight(scan) == scan.state \in {"scanning", "body"}

\* C5, while scanning: the button of an invocation whose request is in flight
\* is disabled and shows the busy indicator.
C5_BusyWhileInFlight ==
    \A i \in 1..Len(scans) :
        InFlight(scans[i]) => button.disabled /\ button.innerHTML = "spinner"

\* C5, at the end: an invocation leaves Scanning for exactly one of Success,
\* with the summary in the results container, or Failed, with the error panel
\* in it; either way the button is enabled again and shows the label it had
\* before the scan.
C5_EndsInSuccessOrFailed ==
    [][\A i \in 1..Len(scans) :
          (InFlight(scans[i]) /\ ~InFlight(scans'[i])) =>
              /\ scans'[i].state \in {"success", "failed"}
              /\ scans'[i].state = "success" <=> container' = "results"
              /\ scans'[i].state = "failed" <=>
                    container' \in {"error:request", "error:body", "error:display"}
              /\ ~button'.disabled
              /\ button'.innerHTML = "label"]_vars

\* C5: every invocation from the scan button follows Idle -> Scanning ->
\* {Success, Failed}.
C5_ScanStateMachine == []C5_BusyWhileInFlight /\ C5_EndsInSuccessOrFailed

\* Witness of C5: one invocation has failed, a later one has succeeded
C5_Witness ==
    /\ Len(scans) = 2
    /\ scans[1].state = "failed"
    /\ scans[2].state = "success"
    /\ container = "results"
    /\ button = [innerHTML |-> "label", disabled |-> FALSE]

\* C6: no invocation of handleSecurityScan ends in an exception nobody catches.
C6_NeverThrowsUncaught ==
    \A i \in 1..Len(scans) : scans[i].state /= "uncaught"

-----------------------------------------------------------------------------
(* The load flow when the responses carry different policy objects under the
   id of the policy *)

\* A policy object with the id of ThePolicy in which the definitions of the
\* model id and of the model name have changed places
SwappedPolicy ==
    [id |-> HARDCODED_POLICY_ID,
     stages |-> << [evidenceSet |-> << EvidenceDef("ev-id", "Model Name", "model-name"),
                                       EvidenceDef("ev-name", "Model ID", "model-id") >>] >>]

\* What data.policy may be in the answer to one bundle's request
PolicyVariants == {ThePolicy, SwappedPolicy}

InitOrder ==
    /\ \E n \in 1..MaxBundles :
         \E pols \in [1..n -> PolicyVariants], kinds \in [1..n -> Kinds] :
            /\ srvBundles = [kind |-> "ok", data |-> [i \in 1..n |-> Bundle(i, "active")]]
            /\ srvCompute = [b \in {BundleIdAt[i] : i \in 1..n} |->
                                [ComputeAnswer(kinds[IndexOf(b)], FlowResults(IndexOf(b)))
                                    EXCEPT !.policy = <<pols[IndexOf(b)]>>]]
    /\ hung = {}
    /\ InitClient
    /\ InitScan

SpecOrder == InitOrder /\ [][Next]_vars

\* The evidence id a policy object defines for an external id
DefinedFor(policy, externalId) ==
    LET defs == SelectSeq(StageDefs(policy.stages),
                          LAMBDA def : def.externalId = externalId)
    IN  IF defs = <<>> THEN "" ELSE defs[1].id

\* The content of the last result of a list with that evidence id
ContentOf(results, evidenceId) ==
    LET hits == SelectSeq(results, LAMBDA r : r.evidenceId = evidenceId)
    IN  IF hits = <<>> THEN JNull ELSE hits[Len(hits)].artifactContent

\* The bundles whose answer was stored, in the order of the list
StoredBundles == SelectSeq(bundles, LAMBDA bundle : ~ComputeFailed(bundle.id))

\* C11: the table after processData is the one the load yields when the
\* per-bundle answers complete in the order of the bundle list, whatever the
\* order they completed in: every stored bundle has a row, and the row's model
\* name and model id are read through the policy object that list order leaves
\* in appState.policies (the one of the last stored bundle).
C11_OrderIndependent ==
    AfterProcess =>
        /\ {tableData[i].bundleId : i \in 1..Len(tableData)} = BundleIds(StoredBundles)
        /\ \A i \in 1..Len(tableData) :
              LET policy == srvCompute[StoredBundles[Len(StoredBundles)].id].policy[1]
                  results == srvCompute[tableData[i].bundleId].results
              IN  /\ tableData[i].modelName
                        = ContentOf(results, DefinedFor(policy, "model-name"))
                  /\ tableData[i].modelId
                        = ContentOf(results, DefinedFor(policy, "model-id"))

-----------------------------------------------------------------------------
(* Provenance of the stored evidence *)

\* C12: every list stored in appState.evidence is the results list of the
\* bundle's answer, entry for entry in order, with source 'result' on every
\* entry whatever source the entry brought; no draft contributes an entry or a
\* field, and every Q/A entry has source 'result'.
C12_ProvenanceResult ==
    /\ \A b \in DOMAIN evidence :
          /\ Len(evidence[b]) = Len(srvCompute[b].results)
          /\ \A i \in 1..Len(evidence[b]) :
                /\ evidence[b][i].source = "result"
                /\ evidence[b][i].evidenceId = srvCompute[b].results[i].evidenceId
                /\ evidence[b][i].artifactContent = srvCompute[b].results[i].artifactContent
    /\ \A b \in DOMAIN qaData :
          \A k \in 1..Len(qaData[b]) :
              /\ qaData[b][k].source = "result"
              /\ \E i \in 1..Len(srvCompute[b].results) :
                    qaData[b][k].rawContent = srvCompute[b].results[i].artifactContent

\* Witness of C12: the answer held drafts, for evidence with and without a
\* result, and a result that brought the source 'draft'; the stored entry and
\* the Q/A entries of the bundle have source 'result'
C12_Witness ==
    /\ pc = "ready"
    /\ \E b \in DOMAIN evidence :
          /\ Len(srvCompute[b].drafts) = 2
          /\ srvCompute[b].results[1].source = "draft"
          /\ evidence[b][1].source = "result"
          /\ Len(qaData[b]) = 2

-----------------------------------------------------------------------------
(* The bundles considered *)

\* The bundle carries the policy: one of its attached policies has the id
HasThePolicy(bundle) ==
    \E i \in 1..Len(bundle.policies) : bundle.policies[i].policyId = HARDCODED_POLICY_ID

\* C13: every bundle of appState.bundles is a bundle of the list whose state
\* is not 'Archived' and which has the policy attached; no request is issued
\* and no row built for any other bundle: an archived bundle is left out even
\* with the policy attached, and so is a bundle without a policy list.
C13_OnlyActiveWithPolicy ==
    /\ \A i \in 1..Len(bundles) :
          /\ bundles[i].state /= "Archived"
          /\ HasThePolicy(bundles[i])
          /\ \E j \in 1..Len(srvBundles.data) : srvBundles.data[j] = bundles[i]
    /\ \A j \in 1..Len(srvBundles.data) :
          (srvBundles.data[j].state = "Archived" \/ srvBundles.data[j].policies = <<>>)
              => /\ srvBundles.data[j].id \notin DOMAIN req
                 /\ srvBundles.data[j].id \notin DOMAIN evidence
                 /\ srvBundles.data[j].id \notin DOMAIN qaData
                 /\ \A i \in 1..Len(tableData) :
                       tableData[i].bundleId /= srvBundles.data[j].id

\* Witness of C13: of an archived bundle with the policy and a bundle that has
\* the policy second in its list, only the latter was loaded
C13_Witness ==
    /\ pc = "ready"
    /\ Len(srvBundles.data) = 2
    /\ srvBundles.data[1].state = "Archived"
    /\ HasThePolicy(srvBundles.data[1])
    /\ Len(srvBundles.data[2].policies) = 2
    /\ Len(bundles) = 1
    /\ Len(tableData) = 1

-----------------------------------------------------------------------------
(* The question of a Q/A entry, over bundles with two attached policies *)

SecondPolicyId == "second-policy"

\* A policy holding the given definitions in one stage
QPolicy(id, defs) == [id |-> id, stages |-> << [evidenceSet |-> defs] >>]

\* What a policy may define for the evidence "ev-x": nothing, or a definition
\* with or without a name and with or without an external id
DefOptions(name, externalId) ==
    { <<>> } \cup { << EvidenceDef("ev-x", n, e) >> : n \in {"", name}, e \in {"", externalId} }

\* A bundle with the policy and a second policy attached, in this order
TwoPolicyBundle(i) ==
    [Bundle(i, "active") EXCEPT !.policies = << [policyId |-> HARDCODED_POLICY_ID],
                                                [policyId |-> SecondPolicyId] >>]

\* The state in which fetchAllData returns true: the answer for the first
\* bundle carried the policy and one evidence record, the answer for the
\* second bundle carried the second policy
InitQuestions ==
    /\ \E d1 \in DefOptions("First name", "first-ext"),
          d2 \in DefOptions("Second name", "second-ext"),
          evidenceId \in {"ev-x", ""} :
          LET list == << TwoPolicyBundle(1), TwoPolicyBundle(2) >>
              first == QPolicy(HARDCODED_POLICY_ID, d1)
              second == QPolicy(SecondPolicyId, d2)
              results == << Result(evidenceId, JStr(<<"y","e","s">>), "") >>
          IN  /\ srvBundles = [kind |-> "ok", data |-> list]
              /\ srvCompute = ("b1" :> [ComputeAnswer("ok", results) EXCEPT !.policy = <<first>>])
                              @@ ("b2" :> [ComputeAnswer("ok", <<>>) EXCEPT !.policy = <<second>>])
              /\ req = [b \in {"b1", "b2"} |-> "stored"]
              /\ bundles = list
              /\ policies = (HARDCODED_POLICY_ID :> first) @@ (SecondPolicyId :> second)
              /\ evidence = ("b1" :> TagResults(results)) @@ ("b2" :> <<>>)
    /\ hung = {}
    /\ pc = "processData"
    /\ tableData = <<>>
    /\ qaData = <<>>
    /\ tbody = "loading"
    /\ dom = <<>>
    /\ timer = FALSE
    /\ clipboard = NoCopy
    /\ InitScan

NextQuestions ==
    \/ ProcessData
    \/ RenderTable

SpecQuestions == InitQuestions /\ [][NextQuestions]_vars

\* The definitions with that id in the stored policies attached to bundle b
MatchingDefs(b, evidenceId) ==
    LET bundle == CHOOSE x \in {bundles[i] : i \in 1..Len(bundles)} : x.id = b
    IN  UNION { {StageDefs(policies[bundle.policies[p].policyId].stages)[k] :
                    k \in {k \in 1..Len(StageDefs(policies[bundle.policies[p].policyId].stages)) :
                             StageDefs(policies[bundle.policies[p].policyId].stages)[k].id
                                 = evidenceId}} :
                p \in {p \in 1..Len(bundle.policies) :
                         bundle.policies[p].policyId \in DOMAIN policies} }

\* C14: the question of a Q/A entry is, for one definition that matches the
\* record's evidenceId, its name, else its externalId, else the evidenceId,
\* else "Unknown", and the entry's externalId is the externalId of that same
\* definition; without a match it is the evidenceId, else "Unknown".
C14_QuestionFromOneDefinition ==
    AfterProcess =>
        \A b \in DOMAIN qaData :
            \A k \in 1..Len(qaData[b]) :
                LET entry == qaData[b][k]
                    defs == MatchingDefs(b, entry.evidenceId)
                IN  IF defs = {}
                    THEN /\ entry.question = Or(entry.evidenceId, "Unknown")
                         /\ entry.externalId = ""
                    ELSE \E def \in defs :
                            /\ entry.question
                                  = Or(def.name, Or(def.externalId,
                                                    Or(entry.evidenceId, "Unknown")))
                            /\ entry.externalId = def.externalId

-----------------------------------------------------------------------------
(* The answer of a Q/A entry, over the shapes artifactContent can have *)

\* What the artifactContent of an evidence record may be
ContentShapes ==
    { JNull, JUndefined,
      JStr(<<"y","e","s">>), JStr(<<>>),
      JNum(0), JNum(42), JBool(TRUE), JBool(FALSE),
      JObj(<< Field(LabelKey, JStr(<<"H","i","g","h">>)), Field(<<"v">>, JNum(3)) >>),
      JObj(<< Field(LabelKey, JStr(<<>>)) >>),
      JObj(<< Field(LabelKey, JNum(5)) >>),
      JObj(<< Field(LabelKey, JBool(TRUE)) >>),
      JObj(<< Field(LabelKey, JArr(<< JStr(<<"a">>), JStr(<<"b">>) >>)) >>),
      JObj(<< Field(LabelKey, JNull) >>),
      JArr(<< JStr(<<"a">>), JNum(2), JNull, JStr(<<"b">>) >>),
      JArr(<<>>),
      JObj(<< Field(<<"k">>, JStr(<<"v","\"">>)), Field(<<"n">>, JNum(1)),
              Field(<<"u">>, JUndefined), Field(<<"l">>, JArr(<< JNull, JBool(FALSE) >>)) >>),
      JObj(<<>>) }

\* The published evidence of a bundle: its model name and one more record
AnswerResults(i, content) ==
    << Result("ev-name", JStr(FlowNames[i]), ""), Result("ev-x", content, "") >>

InitAnswers ==
    /\ \E n \in 1..MaxRows :
         \E contents \in [1..n -> ContentShapes] :
            Fetched([i \in 1..n |-> Bundle(i, "active")],
                    [i \in 1..n |-> AnswerResults(i, contents[i])])
    /\ InitScan

SpecAnswers == InitAnswers /\ [][NextRows]_vars

HasLabel(v) == v.t = "object" /\ Get(v, LabelKey).t /= "undefined"

\* The answer the contract gives a content that has one by its shape alone
ClaimedAnswer(v) ==
    CASE v.t \in {"null", "undefined"} -> <<"N", "/", "A">>
      [] HasLabel(v) -> Get(v, LabelKey).s
      [] v.t = "array" -> ArrayJoin(v.f, <<",", " ">>)
      [] v.t = "object" -> Stringify(v)
      [] OTHER -> StringOf(v)

\* C15: processData completes for every content shape, and the entry of every
\* evidence record has a text answer: "N/A" for null and absent content, the
\* label of an object that has one when the label is a string, the elements
\* joined with ", " for an array, the compact JSON text for another object,
\* the string conversion for anything else.
C15_AnswerByType ==
    AfterProcess =>
        \A b \in BundleIds(bundles) :
            /\ b \in DOMAIN qaData
            /\ \A i \in 1..Len(evidence[b]) :
                  \E k \in 1..Len(qaData[b]) :
                      LET entry == qaData[b][k]
                          content == evidence[b][i].artifactContent
                      IN  /\ entry.evidenceId = evidence[b][i].evidenceId
                          /\ entry.rawContent = content
                          /\ entry.answer.t = "string"
                          /\ (HasLabel(content) => Get(content, LabelKey).t = "string")
                                => entry.answer.s = ClaimedAnswer(content)

-----------------------------------------------------------------------------
(* The bulleted answers, over contents with line breaks *)

\* Contents whose text has line breaks, blank lines and padded lines, and
\* contents whose text has none
LineShapes ==
    { JStr(<<"a", "\n", "b">>),
      JStr(<<"a", "\n", "\n", " ", "b", " ", "\n">>),
      JStr(<<" ", "a", " ", "c", "\r", "\n", "\t", "\n", "b">>),
      JStr(<<"\n">>),
      JStr(<<"\n", " ", "\n">>),
      JStr(<<"a", "\n">>),
      JStr(<<" ", "a", " ">>),
      JStr(<<"a", " ", "b">>),
      JObj(<< Field(LabelKey, JStr(<<"x", "\n", "y">>)) >>),
      JArr(<< JStr(<<"p", "\n", "q">>), JStr(<<"r">>) >>),
      JNum(12), JNull }

InitBullets ==
    /\ \E n \in 1..MaxRows :
         \E contents \in [1..n -> LineShapes] :
            Fetched([i \in 1..n |-> Bundle(i, "active")],
                    [i \in 1..n |-> AnswerResults(i, contents[i])])
    /\ InitScan

SpecBullets == InitBullets /\ [][NextRows]_vars

HasLineBreak(text) == \E i \in 1..Len(text) : text[i] = "\n"

\* One bullet for each line that is not empty after trimming, in order, with
\* <br> between two bullets
RECURSIVE BulletList(_)
BulletList(lines) ==
    IF lines = <<>> THEN <<>>
    ELSE IF trim(Head(lines)) = <<>> THEN BulletList(Tail(lines))
    ELSE <<Bullet, " ">> \o trim(Head(lines))
         \o (IF BulletList(Tail(lines)) = <<>> THEN <<>>
             ELSE <<Br>> \o BulletList(Tail(lines)))

\* C16: processData completes, and for every evidence record the entry's
\* rawContent is the artifactContent as it came; a coerced text without a line
\* break is the answer unchanged; a coerced text with a line break gives the
\* bulleted list of its lines that are not empty after trimming, in order,
\* joined by <br>.
C16_BulletedAnswer ==
    AfterProcess =>
        \A b \in BundleIds(bundles) :
            /\ b \in DOMAIN qaData
            /\ \A i \in 1..Len(evidence[b]) :
                  \E k \in 1..Len(qaData[b]) :
                      LET entry == qaData[b][k]
                          text == ClaimedAnswer(evidence[b][i].artifactContent)
                      IN  /\ entry.evidenceId = evidence[b][i].evidenceId
                          /\ entry.rawContent = evidence[b][i].artifactContent
                          /\ entry.answer
                                = JStr(IF HasLineBreak(text)
                                       THEN BulletList(SplitLines(text, <<>>))
                                       ELSE text)

\* Witness of C16: a text of four lines, two of them blank, gave two bullets
C16_Witness ==
    /\ pc = "ready"
    /\ \E b \in DOMAIN qaData :
          \E k \in 1..Len(qaData[b]) :
              /\ qaData[b][k].rawContent = JStr(<<"a", "\n", "\n", " ", "b", " ", "\n">>)
              /\ qaData[b][k].answer = JStr(<<Bullet, " ", "a", Br, Bullet, " ", "b">>)

-----------------------------------------------------------------------------
(* The file descriptors, over raw contents that hold files, text or neither *)

MaxFileRecords == 2

Padded(text) == <<" ">> \o text \o <<" ", " ">>

\* What the raw content of a Q/A entry may be: objects and JSON texts with
\* files, with no files and with an empty files array, a files field that is
\* no array, an array, brace-delimited text that is not JSON, other text,
\* null and a number
FileShapes ==
    JSONValues
    \cup { JStr(Stringify(v)) : v \in JSONValues }
    \cup { JStr(Padded(Stringify(v))) : v \in JSONValues }
    \cup { JObj(<< Field(FilesKey, JStr(<<"a",".","p","y">>)) >>),
           JArr(<< FileA >>),
           JStr(<<"{","o","o","p","s","}">>),
           JStr(<<"{","\"","f","i","l","e","s","\"",":","[","}">>),
           JStr(<<"{">>),
           JStr(<<"y","e","s">>),
           JNull, JNum(7) }

FileEvidenceIds == <<"ev-x", "ev-y", "ev-z">>

\* The published evidence: the model name and up to MaxFileRecords records
FileResults(contents) ==
    << Result("ev-name", JStr(FlowNames[1]), "") >>
    \o [k \in 1..Len(contents) |-> Result(FileEvidenceIds[k], contents[k], "")]

InitFiles ==
    /\ \E n \in 1..MaxFileRecords :
         \E contents \in [1..n -> FileShapes] :
            Fetched(<< Bundle(1, "active") >>, << FileResults(contents) >>)
    /\ InitScan

SpecFiles == InitFiles /\ [][NextRows]_vars

\* The files array a raw content holds: of the object itself, or of the value
\* whose JSON text the trimmed string is, when the string is brace-delimited
HeldFiles(rawContent) ==
    LET value ==
          IF rawContent.t = "object" THEN <<rawContent>>
          ELSE IF rawContent.t = "string"
               THEN LET texts == {v \in JSONValues : Stringify(v) = trim(rawContent.s)}
                    IN  IF texts = {} THEN <<>> ELSE <<CHOOSE v \in texts : TRUE>>
               ELSE <<>>
    IN  IF value /= <<>> /\ Get(value[1], FilesKey).t = "array"
        THEN [i \in 1..Len(Get(value[1], FilesKey).f) |->
                [file |-> Get(value[1], FilesKey).f[i], commit |-> Get(value[1], CommitKey)]]
        ELSE <<>>

\* The files held by the entries, in the order of the entries, each with the
\* question of its entry
RECURSIVE HeldOver(_)
HeldOver(qaDict) ==
    IF qaDict = <<>> THEN <<>>
    ELSE [i \in 1..Len(HeldFiles(Head(qaDict).rawContent)) |->
            [held |-> HeldFiles(Head(qaDict).rawContent)[i],
             question |-> Head(qaDict).question]]
         \o HeldOver(Tail(qaDict))

-----------------------------------------------------------------------------
(* The table body when the load is over *)

\* initializeDashboard has returned or an exception has left it
LoadOver == pc \in {"ready", "failed", "rejected"}

\* C18: once the load is over the table body holds explicit content, the
\* rows, 'No models found' or 'Failed to load data', never the spinner row
\* 'Loading models...'.
C18_LoadEndsWithContent == LoadOver => tbody \in {"rows", "empty", "failed"}

-----------------------------------------------------------------------------
(* The CSV export, over answers of several shapes *)

MaxCopyRecords == 2

\* What the evidence of an exported row may carry: plain text, text with
\* quotes, with a comma, with blanks around it, with two lines, a number, an
\* array, objects (their JSON text is the answer), JSON text of arrays, and
\* an object whose label is an array
CopyShapes ==
    { JStr(<<"y","e","s">>),
      JStr(<<"s","a","y"," ","\"","h","i","\"">>),
      JStr(<<"a",",","b">>),
      JStr(<<" ","y","e","s"," ">>),
      JStr(<<"a","\n","b">>),
      JNum(7),
      JArr(<< JStr(<<"a">>), JStr(<<"b">>) >>),
      JObj(<< Field(<<"k">>, JStr(<<"v">>)) >>),
      JObj(<< Field(FilesKey, JArr(<< FileA, FileB >>)),
              Field(CommitKey, JStr(<<"c","0","f","f","e","e">>)) >>),
      JStr(<<"[","\"","a","\"",",","\"","b","\"","]">>),
      JStr(<<"[","n","u","l","l","]">>),
      JStr(<<"[","o","o","p","s","]">>),
      JObj(<< Field(LabelKey, JArr(<< JStr(<<"a">>), JStr(<<"b">>) >>)) >>) }

CopyEvidenceIds == <<QuotedId, "ev-y", "ev-z">>

CopyResults(contents) ==
    << Result("ev-name", JStr(FlowNames[1]), "") >>
    \o [k \in 1..Len(contents) |-> Result(CopyEvidenceIds[k], contents[k], "")]

InitCopy ==
    /\ \E n \in 1..MaxCopyRecords :
         \E contents \in [1..n -> CopyShapes] :
            Fetched(<< Bundle(1, "active") >>, << CopyResults(contents) >>)
    /\ InitScan

NextCopy ==
    \/ ProcessData
    \/ RenderTable
    \/ InitializeQAPagination
    \/ \E index \in 1..MaxRows : CopyQAToClipboard(index)

SpecCopy == InitCopy /\ [][NextCopy]_vars

\* Reading a quoted field from the position after its opening quote: a
\* doubled quote is a quote of the field, a single one ends it. In a run of
\* quotes every second one is the second of a pair; the field ends at the
\* first quote that is neither that nor followed by a quote
ReadField(text, pos) ==
    LET quote(i) == text[i] = "\""
        runStart(i) == CHOOSE r \in pos..i :
                          /\ \A j \in r..i : quote(j)
                          /\ r = pos \/ ~quote(r - 1)
        second(i) == quote(i) /\ (i - runStart(i)) % 2 = 1
        closing == {i \in pos..Len(text) :
                      /\ quote(i)
                      /\ ~second(i)
                      /\ i = Len(text) \/ ~quote(i + 1)}
        end == IF closing = {} THEN Len(text) + 1
               ELSE CHOOSE i \in closing : \A j \in closing : i <= j
        kept == SelectSeq([i \in 1..(end - pos) |-> pos + i - 1], LAMBDA i : ~second(i))
    IN  [closed |-> closing /= {},
         value |-> [k \in 1..Len(kept) |-> text[kept[k]]],
         next |-> IF closing /= {} THEN end + 1
                  ELSE IF pos > Len(text) THEN pos ELSE Len(text) + 1]

\* Re-splitting the lines from a position on: per line the two fields, or a
\* line marked bad from which on the text is no "question","answer" line
RECURSIVE ReadRecords(_, _)
ReadRecords(text, pos) ==
    IF pos > Len(text) THEN <<>>
    ELSE LET q == ReadField(text, pos + 1)
             a == ReadField(text, q.next + 2)
             wellFormed ==
                /\ text[pos] = "\""
                /\ q.closed
                /\ q.next + 1 <= Len(text)
                /\ text[q.next] = ","
                /\ text[q.next + 1] = "\""
                /\ a.closed
                /\ a.next <= Len(text)
                /\ text[a.next] = "\n"
         IN  IF wellFormed
             THEN << [bad |-> FALSE, question |-> q.value, answer |-> a.value] >>
                  \o ReadRecords(text, a.next + 1)
             ELSE << [bad |-> TRUE, question |-> <<>>, answer |-> <<>>] >>

\* The answer is the JSON text of an object or an array
IsJSONText(answer) ==
    \E v \in JSONValues \cup JSONArrays : Stringify(v) = trim(answer.s)

\* C19: a copyQAToClipboard call writes a text that starts with the header
\* line 'Question,Answer' and has one line per Q/A entry, both fields quoted
\* with their quotes doubled, and re-splitting the lines gives back the
\* question and the answer of every entry of the row's Q/A dictionary, an
\* answer that is JSON text being flattened.
C19_CsvRoundTrip ==
    clipboard.index /= 0 =>
        LET qaDict == tableData[clipboard.index].qaDict
            text == clipboard.text
            recs == ReadRecords(text, Len(CsvHeader) + 1)
        IN  /\ ~clipboard.raised
            /\ Len(text) >= Len(CsvHeader)
            /\ SubSeq(text, 1, Len(CsvHeader)) = CsvHeader
            /\ Len(recs) = Len(qaDict)
            /\ \A i \in 1..Len(recs) :
                  /\ ~recs[i].bad
                  /\ recs[i].question = Chars(qaDict[i].question)
                  /\ qaDict[i].answer.t = "string"
                  /\ IF IsJSONText(qaDict[i].answer)
                     THEN recs[i].answer = flattenJSONForSheets(qaDict[i].answer)
                     ELSE recs[i].answer = qaDict[i].answer.s

-----------------------------------------------------------------------------
(* The metadata record, over evidence contents that are falsy or not *)

MaxMetaRecords == 2

\* What the evidence of a metadata key may carry
MetaShapes ==
    { JNull, JNum(0), JNum(7), JBool(FALSE), JBool(TRUE), JStr(<<>>),
      JStr(<<"r","i","s","k">>) }

\* The evidence ids of the policy that resolve to model-id and business-line
MetaEvidenceIds == {"ev-id", "ev-bl"}

MetaResults(ids, contents) ==
    << Result("ev-name", JStr(FlowNames[1]), "") >>
    \o [k \in 1..Len(contents) |-> Result(ids[k], contents[k], "")]

InitMetadata ==
    /\ \E n \in 0..MaxMetaRecords :
         \E ids \in [1..n -> MetaEvidenceIds], contents \in [1..n -> MetaShapes] :
            Fetched(<< Bundle(1, "active") >>, << MetaResults(ids, contents) >>)
    /\ InitScan

SpecMetadata == InitMetadata /\ [][NextRows]_vars

\* The evidence of the row that resolves to the external id, in list order
ResolvedTo(row, key) ==
    SelectSeq(row.evidence,
              LAMBDA ev : \E s \in 1..Len(ThePolicy.stages) :
                            \E d \in 1..Len(ThePolicy.stages[s].evidenceSet) :
                               /\ ThePolicy.stages[s].evidenceSet[d].id = ev.evidenceId
                               /\ ThePolicy.stages[s].evidenceSet[d].externalId = key)

\* C20: for every metadata key of a row, the field is the artifactContent of
\* the evidence resolved to that external id when there is one (the last of
\* them), whatever the content, and null when there is none.
C20_MetadataIsContent ==
    AfterProcess =>
        /\ Len(tableData) = 1
        /\ \A key \in MetadataKeys :
              LET hits == ResolvedTo(tableData[1], key)
              IN  tableData[1].metadata[key]
                     = IF hits = <<>> THEN JNull ELSE hits[Len(hits)].artifactContent

-----------------------------------------------------------------------------
(* Security scans while the table is loaded, rendered and used: a row with a
   Q/A list of two pages and a row with one entry *)

InitScanTable ==
    /\ Fetched(<< Bundle(1, "active"), Bundle(2, "active") >>,
               << QAResults(1, itemsPerPage + 1), QAResults(2, 1) >>)
    /\ InitScan

NextScanTable ==
    \/ NextUI
    \/ NextScans

SpecScanTable == InitScanTable /\ [][NextScanTable]_vars

\* A step of a security scan: an invocation starts, or its request or the
\* reading of its body ends
ScanStep == scans' /= scans

\* C21: a step of a security scan, successful or failed, leaves
\* appState.tableData, qaData, evidence, policies and bundles, the table body,
\* the detail rows with their expanded state, the Q/A page positions and the
\* visibility of the Q/A items unchanged; only the button and the results
\* container change.
C21_ScanLeavesTableAlone ==
    [][ScanStep => UNCHANGED <<tableData, qaData, evidence, policies, bundles, tbody,
                               dom, timer, clipboard, pc>>]_vars

\* Witness of C21: the first row is expanded on the second page of its Q/A
\* list while one scan has failed, one has succeeded and one is in flight
C21_Witness ==
    /\ pc = "ready"
    /\ Len(dom) = 2
    /\ dom[1].show
    /\ dom[1].currentPage = 1
    /\ Len(scans) = 3
    /\ scans[1].state = "failed"
    /\ scans[2].state = "success"
    /\ scans[3].state = "scanning"

-----------------------------------------------------------------------------
(* Overlapping scans: handleSecurityScan is called with the button while an
   earlier invocation on it is in flight. The function takes the button as a
   parameter and does not look at its disabled state. *)

\* handleSecurityScan(modelName, modelVersion, button) from a caller other
\* than a click on the enabled button
CallScan == HandleSecurityScan("button")

NextOverlap ==
    \/ CallScan
    \/ \E i \in 1..Len(scans) : ScanResponse(i)
    \/ \E i \in 1..Len(scans) : ScanBody(i)

SpecOverlap == InitScans /\ [][NextOverlap]_vars

\* C22: the button is never enabled while an invocation on it is in flight,
\* and once every invocation has finished the button is enabled and shows the
\* label it had before the scans, not the busy indicator.
C22_OverlapRestoresButton ==
    /\ (\E i \in 1..Len(scans) : InFlight(scans[i])) => button.disabled
    /\ (Len(scans) > 0 /\ \A i \in 1..Len(scans) : ~InFlight(scans[i])) =>
            button = [innerHTML |-> "label", disabled |-> FALSE]

-----------------------------------------------------------------------------
(* Properties of the Q/A pages *)

\* The positions of the items of row r that are not hidden
VisibleItems(row) == {i \in 0..(row.items - 1) : row.display[i + 1] /= "none"}

\* The positions [4p, min(4p + 4, N)) of page p of a list of N items
PageItems(p, N) ==
    {i \in 0..(N - 1) : itemsPerPage * p <= i /\ i < itemsPerPage * p + itemsPerPage}

\* C23, the states: every stored page is within 0..ceil(N/4)-1 and, once the
\* pagination is initialised, exactly the items of the stored page are visible.
C23_PageAndVisibility ==
    \A r \in 1..Len(dom) :
        /\ dom[r].currentPage \in 0..(Ceil(dom[r].items, itemsPerPage) - 1)
        /\ ~timer => VisibleItems(dom[r]) = PageItems(dom[r].currentPage, dom[r].items)

\* C23, the steps: changeQAPage(index, d) moves the page by d, a step past
\* either end leaves it unchanged, exactly the items of the new page are
\* visible, and the other rows keep their page and their visibility.
C23_PageSteps ==
    [][\A index \in 1..Len(dom) : \A d \in {-1, 1} :
          ChangeQAPage(index, d) =>
              /\ dom'[index].currentPage
                    = IF dom[index].currentPage + d
                            \in 0..(Ceil(dom[index].items, itemsPerPage) - 1)
                      THEN dom[index].currentPage + d
                      ELSE dom[index].currentPage
              /\ VisibleItems(dom'[index])
                    = PageItems(dom'[index].currentPage, dom[index].items)
              /\ \A r \in 1..Len(dom) :
                    r /= index =>
                        /\ dom'[r].currentPage = dom[r].currentPage
                        /\ dom'[r].display = dom[r].display]_vars

\* C23: after any sequence of changeQAPage calls the stored page is in range,
\* exactly its items are visible and the other rows are untouched.
C23_PagesStayConsistent == []C23_PageAndVisibility /\ C23_PageSteps

-----------------------------------------------------------------------------
(* The Q/A dictionary over evidence lists in which records may resolve to the
   same question *)

MaxDictRecords == 3

\* The evidence ids of the records: three the policy defines (the business
\* line has no name, its question is its external id), one that is the
\* external id of the business line, one that is the name of the model name's
\* definition, and one the policy does not know
DictIds == {"ev-name", "ev-id", "ev-bl", "business-line", "Model Name", "ev-x"}

\* The content of the record at a position: a text that tells the position
DictContent == << JStr(<<"g","p","t">>), JStr(<<"a","1">>), JStr(<<"a","2">>),
                  JStr(<<"a","3">>), JStr(<<"a","4">>) >>

DictResults(ids) ==
    << Result("ev-name", DictContent[1], "") >>
    \o [k \in 1..Len(ids) |-> Result(ids[k], DictContent[k + 1], "")]

InitDict ==
    /\ \E n \in 0..MaxDictRecords :
         \E ids \in [1..n -> DictIds] :
            Fetched(<< Bundle(1, "active") >>, << DictResults(ids) >>)
    /\ InitScan

SpecDict == InitDict /\ [][NextRows]_vars

\* The question the k-th evidence record of the row resolves to
QuestionOf(row, k) == ResolveQuestion(row.evidence[k], row.policies)

\* C24: the Q/A dictionary of a row has one entry per distinct resolved
\* question: it is no longer than the evidence list and as long exactly when
\* the resolved questions are pairwise distinct, and the entry of a question
\* holds the answer, evidenceId, externalId, source and rawContent of the last
\* record of the list that resolves to it.
C24_OneEntryPerQuestion ==
    AfterProcess =>
        /\ Len(tableData) = 1
        /\ LET row == tableData[1]
               n == Len(row.evidence)
               qa == row.qaDict
           IN  /\ \A i, j \in 1..Len(qa) : qa[i].question = qa[j].question => i = j
               /\ {qa[i].question : i \in 1..Len(qa)} = {QuestionOf(row, k) : k \in 1..n}
               /\ Len(qa) <= n
               /\ Len(qa) = n <=>
                     \A k, l \in 1..n : QuestionOf(row, k) = QuestionOf(row, l) => k = l
               /\ \A i \in 1..Len(qa) :
                     LET last == CHOOSE k \in 1..n :
                                    /\ QuestionOf(row, k) = qa[i].question
                                    /\ \A l \in 1..n :
                                          QuestionOf(row, l) = qa[i].question => l <= k
                     IN  /\ qa[i].answer = row.evidence[last].artifactContent
                         /\ qa[i].rawContent = row.evidence[last].artifactContent
                         /\ qa[i].evidenceId = row.evidence[last].evidenceId
                         /\ qa[i].source = row.evidence[last].source
                         /\ qa[i].externalId
                               = getEvidenceExternalId(row.evidence[last], row.policies)

\* Witness of C24: four records, the business line's and a later one whose id
\* is the business line's external id share a question; the dictionary has
\* three entries and the shared one holds the later record
C24_Witness ==
    /\ pc = "ready"
    /\ Len(tableData) = 1
    /\ Len(tableData[1].evidence) = 4
    /\ tableData[1].evidence[2].evidenceId = "ev-bl"
    /\ tableData[1].evidence[4].evidenceId = "business-line"
    /\ Len(tableData[1].qaDict) = 3
    /\ tableData[1].qaDict[2].question = "business-line"
    /\ tableData[1].qaDict[2].evidenceId = "business-line"
    /\ tableData[1].qaDict[2].externalId = ""
    /\ tableData[1].qaDict[2].answer = JStr(<<"a","3">>)

-----------------------------------------------------------------------------
(* The rows of the bundles whose compute-policy fetch failed *)

\* C25: a bundle whose compute-policy fetch failed never has evidence nor a
\* row in appState.tableData, whatever its attachments, and once processData
\* has run appState.qaData holds an empty Q/A dictionary for it; tableData
\* never has more rows than there are bundles whose fetch succeeded.
C25_FailedBundleHasNoRow ==
    /\ \A i \in 1..Len(bundles) :
          ComputeFailed(bundles[i].id) =>
              /\ BundleEvidence(bundles[i]) = <<>>
              /\ \A r \in 1..Len(tableData) : tableData[r].bundleId /= bundles[i].id
              /\ AfterProcess =>
                    /\ bundles[i].id \in DOMAIN qaData
                    /\ Len(qaData[bundles[i].id]) = 0
    /\ Len(tableData)
          <= Cardinality({i \in 1..Len(bundles) : ~ComputeFailed(bundles[i].id)})

\* Witness of C25: the first bundle, which carries a model attachment, failed
\* and the second was stored; the table holds the second bundle's row only
C25_Witness ==
    /\ pc = "ready"
    /\ Len(bundles) = 2
    /\ ComputeFailed(bundles[1].id)
    /\ bundles[1].attachments /= <<>>
    /\ ~ComputeFailed(bundles[2].id)
    /\ Len(tableData) = 1
    /\ tableData[1].bundleId = bundles[2].id
    /\ DOMAIN qaData = {bundles[1].id, bundles[2].id}

====
